---- MODULE Spec2Model ----
(***************************************************************************)
(* State-machine model of the statement generation engine:                 *)
(*   - ObjectGenerator instance pools (objectGenerator.py)                 *)
(*   - CodeGenerator relation-aware / no-flag generation (codeGenerator.py)*)
(*   - ParameterGenerator grammar expansion (parameterGenerator.py)        *)
(*   - normalize_generated_value (generator_utils.py)                      *)
(* Strings of JavaScript text are modelled structurally: a statement is a  *)
(* sequence of segments, each either inside a try{...}catch(e){} guard or  *)
(* bare; a value that the normalizer works on is a sequence of characters. *)
(***************************************************************************)
EXTENDS Integers, Sequences, FiniteSets, TLC

VARIABLES
    pc,                     \* position of the CodeGenerator: idle/noflag/loop/first/second/done/raised
    instances,              \* ObjectGenerator.instances, per object name
    permenent_instances,    \* ObjectGenerator.permenent_instances, per object name
    permenent_object_list,  \* CodeGenerator.permenent_object_list
    tmp_object_list,        \* CodeGenerator.tmp_object_list
    statements,             \* the statement list being built / returned
    generated_count,        \* generated_count / generate_count
    count,                  \* target count of the current pass
    weak_relation,          \* flag of the current pass
    symbolic_relation,      \* flag of the current pass
    first_raw_call,         \* local of the loop body
    first_statement,        \* local of the loop body
    second_api_key,         \* local of the loop body
    last_iter,              \* history: how the pass started / what the last iteration or pool call did
    selected,               \* history: the API key the last random selection chose
    wiring,                 \* history: the symbolic-wiring attempts of the last emitted pair
    ex_grammar,             \* ParameterGenerator.grammar
    ex_max_depth,           \* max_depth argument of _expand_symbol
    ex_stack,               \* call stack of _expand_symbol frames
    ex_ret,                 \* value returned by the frame that last returned
    ex_opaque,              \* history: that value had no frame restored the brace escapes
    ex_status,              \* "idle" / "running" / "returned" / "RecursionError"
    ex_peak,                \* history: deepest depth argument seen in this expansion
    nv_in,                  \* normalize_generated_value: the raw value
    nv_out,                 \* normalize_generated_value(nv_in)
    nv_out2,                \* normalize_generated_value(nv_out)
    nv_pc,                  \* "idle" / "raw" / "once" / "twice" (_cf: a counterfactual fired)
    sv_in,                  \* solve_for_other_symbol: constraint_dict, known_symbol, known_value
    sv_out,                 \* solve_for_other_symbol: the value returned or the exception raised
    sv_pc,                  \* "idle" / "called" / "returned" / "raised"
    ld_pc,                  \* construction: idle/api_info/params/handler/constructed/raised
    ld_dir,                 \* the API directory being loaded: API_INFO.json and grammar files
    ld_idx,                 \* index of the next file of the parameter directory
    ld_grammar,             \* ParameterGenerator.grammar: the rules loaded, in order
    ld_start,               \* ParameterGenerator._default_start_symbol ("" = None)
    ld_exc,                 \* the exception in flight ("" = none)
    ld_apis,                \* the API names registered in the object's generator tables
    rw_pc,                  \* generate_api_call_raw of one generator: idle/called/returned/raised
    rw_gen,                 \* the generator: its class, Return_Type and parameter directories
    rw_rand,                \* what generate_random_string(5) returned in this call
    rw_out,                 \* the record returned (its header and parameter names)
    mn_pc,                  \* BaseMonitor.startUp: idle/constructed/open/check/close/finally/end
    mn_kind,                \* the monitor class: adobe / foxit / xchange
    mn_status,              \* BaseMonitor.status
    mn_timeOut,             \* BaseMonitor.timeOut
    mn_tries,               \* iterations of the loop of openPDF done
    mn_polls,               \* iterations of the loop of checkMain done
    mn_app,                 \* self.app is connected (not None)
    mn_alive,               \* environment: the reader process is running
    mn_expired              \* history: the loop of checkMain ran out without a break

vars == <<pc, instances, permenent_instances, permenent_object_list, tmp_object_list,
          statements, generated_count, count, weak_relation, symbolic_relation,
          first_raw_call, first_statement, second_api_key, last_iter, selected, wiring,
          ex_grammar, ex_max_depth, ex_stack, ex_ret, ex_opaque, ex_status, ex_peak,
          nv_in, nv_out, nv_out2, nv_pc, sv_in, sv_out, sv_pc,
          ld_pc, ld_dir, ld_idx, ld_grammar, ld_start, ld_exc, ld_apis,
          rw_pc, rw_gen, rw_rand, rw_out,
          mn_pc, mn_kind, mn_status, mn_timeOut, mn_tries, mn_polls, mn_app, mn_alive,
          mn_expired>>

genVars  == <<pc, permenent_object_list, tmp_object_list, statements, generated_count,
              count, weak_relation, symbolic_relation, first_raw_call, first_statement,
              second_api_key, last_iter, selected, wiring>>
poolVars == <<instances, permenent_instances>>
exVars   == <<ex_grammar, ex_max_depth, ex_stack, ex_ret, ex_opaque, ex_status, ex_peak>>
nvVars   == <<nv_in, nv_out, nv_out2, nv_pc>>
svVars   == <<sv_in, sv_out, sv_pc>>
ldVars   == <<ld_pc, ld_dir, ld_idx, ld_grammar, ld_start, ld_exc, ld_apis>>
rwVars   == <<rw_pc, rw_gen, rw_rand, rw_out>>
mnVars   == <<mn_pc, mn_kind, mn_status, mn_timeOut, mn_tries, mn_polls, mn_app, mn_alive,
              mn_expired>>

-----------------------------------------------------------------------------
(* Generic helpers *)

Range(s) == {s[i] : i \in 1..Len(s)}

Occurrences(s, x) == Cardinality({i \in 1..Len(s) : s[i] = x})

\* index of the first occurrence of x in s (0 when absent)
FirstIndex(s, x) ==
    IF x \in Range(s) THEN CHOOSE i \in 1..Len(s) : s[i] = x /\ \A j \in 1..(i-1) : s[j] # x
    ELSE 0

RemoveAt(s, i) == SubSeq(s, 1, i-1) \o SubSeq(s, i+1, Len(s))

IsPrefix(s, t) == Len(s) <= Len(t) /\ SubSeq(t, 1, Len(s)) = s

-----------------------------------------------------------------------------
(* Text as sequences of one-character strings *)

IsSpace(c) == c \in {" ", "\n", "\r", "\t"}
IsDigit(c) == c \in {"0", "1", "2", "3", "4", "5", "6", "7", "8", "9"}
IsAlpha(c) == c \in {"a", "b", "c", "e", "f", "r", "t", "u", "x", "A", "B", "Z"}

RECURSIVE LStrip(_)
LStrip(s) == IF s # <<>> /\ IsSpace(Head(s)) THEN LStrip(Tail(s)) ELSE s

RECURSIVE RStrip(_)
RStrip(s) == IF s # <<>> /\ IsSpace(s[Len(s)]) THEN RStrip(SubSeq(s, 1, Len(s) - 1)) ELSE s

\* str.strip()
Strip(s) == RStrip(LStrip(s))

\* str.startswith(c), str.endswith(c) for a one-character c
StartsWith(s, c) == s # <<>> /\ s[1] = c
EndsWith(s, c)   == s # <<>> /\ s[Len(s)] = c

\* s[1:-1]
Inner(s) == SubSeq(s, 2, Len(s) - 1)

\* pat occurs in s at position i
OccursAt(s, pat, i) == i + Len(pat) - 1 <= Len(s) /\ SubSeq(s, i, i + Len(pat) - 1) = pat

\* pat in s
Contains(s, pat) == \E i \in 1..Len(s) : OccursAt(s, pat, i)

\* s.replace(pat, rep, 1)
ReplaceFirst(s, pat, rep) ==
    IF ~Contains(s, pat) THEN s
    ELSE LET i == CHOOSE j \in 1..Len(s) :
                     OccursAt(s, pat, j) /\ \A k \in 1..(j - 1) : ~OccursAt(s, pat, k)
         IN  SubSeq(s, 1, i - 1) \o rep \o SubSeq(s, i + Len(pat), Len(s))

\* "".join(chars) as one string
RECURSIVE Join(_)
Join(s) == IF s = <<>> THEN "" ELSE Head(s) \o Join(Tail(s))

-----------------------------------------------------------------------------
(* The constraint solver: symbolic_execution_utils.py. A constraint text is  *)
(* a sequence of tokens (parentheses, blanks, words). The satisfiability     *)
(* check of the external solver is modelled as the choice of any assignment  *)
(* over small finite domains that makes every added constraint true.         *)

\* a parsed S-expression: a leaf (a symbol or a value) has no kids, a list
\* [operator, sub-expression, ...] has the operator and at least one kid
Leaf(s) == [op |-> s, kids |-> <<>>]
SList(op, kids) == [op |-> op, kids |-> kids]

IsLeaf(expr) == expr.kids = <<>>

\* what parse_sexp raises: the assert of line 17, tokens[0] of line 44 on "()"
AssertionError == Leaf("!AssertionError")
IndexError     == Leaf("!IndexError")

\* parse_sexp, lines 24-40: the tokens between the outer parentheses, split at the
\* blanks of bracket level 0
RECURSIVE SplitTop(_, _, _, _)
SplitTop(inner, bracket_level, current_token, tokens) ==
    IF inner = <<>>
    THEN IF current_token # <<>> THEN Append(tokens, current_token) ELSE tokens
    ELSE LET char == Head(inner)
         IN  IF char = "("
             THEN SplitTop(Tail(inner), bracket_level + 1, Append(current_token, char), tokens)
             ELSE IF char = ")"
             THEN SplitTop(Tail(inner), bracket_level - 1, Append(current_token, char), tokens)
             ELSE IF IsSpace(char) /\ bracket_level = 0
             THEN SplitTop(Tail(inner), bracket_level, <<>>,
                           IF current_token # <<>> THEN Append(tokens, current_token) ELSE tokens)
             ELSE SplitTop(Tail(inner), bracket_level, Append(current_token, char), tokens)

RECURSIVE parse_sexp(_)
parse_sexp(text) ==
    LET s == Strip(text)
    IN  IF ~StartsWith(s, "(") THEN Leaf(Join(s))
        ELSE IF ~EndsWith(s, ")") \/ Len(s) < 2 THEN AssertionError
        ELSE LET tokens == SplitTop(Strip(Inner(s)), 0, <<>>, <<>>)
             IN  IF tokens = <<>> THEN IndexError
                 ELSE IF Len(tokens) = 1 THEN parse_sexp(tokens[1])
                 ELSE SList(Join(tokens[1]),
                            [i \in 1..(Len(tokens) - 1) |-> parse_sexp(tokens[i + 1])])

\* the exception parsing raised, "" when it returned
RECURSIVE ParseRaised(_)
ParseRaised(expr) ==
    IF expr = AssertionError THEN "AssertionError"
    ELSE IF expr = IndexError THEN "IndexError"
    ELSE IF \E i \in DOMAIN expr.kids : ParseRaised(expr.kids[i]) # ""
         THEN LET i == CHOOSE j \in DOMAIN expr.kids :
                          /\ ParseRaised(expr.kids[j]) # ""
                          /\ \A k \in 1..(j - 1) : ParseRaised(expr.kids[k]) = ""
              IN  ParseRaised(expr.kids[i])
         ELSE ""

\* collect_variables, lines 303-305: every string of the expression that is not one of
\* these is a variable (operators and numerals that are not listed included)
NotVariables ==
    {"and", "not", "subset", "assert", "=", "!=", ">", "<", ">=", "<=", "true", "false"}

RECURSIVE collect_variables(_)
collect_variables(expr) ==
    (IF expr.op \in NotVariables THEN {} ELSE {expr.op})
    \cup UNION {collect_variables(expr.kids[i]) : i \in DOMAIN expr.kids}

\* Python values: str, int, float (integer-valued here), bool, None, dict, and a raised
\* exception
Py(t, s, n, d) == [t |-> t, s |-> s, n |-> n, d |-> d]
PyStr(s)   == Py("str", s, 0, {})
PyInt(n)   == Py("int", "", n, {})
PyFloat(n) == Py("float", "", n, {})
PyBool(b)  == Py("bool", "", IF b THEN 1 ELSE 0, {})
PyNone     == Py("None", "", 0, {})
\* a dict: the set of its (key, value) items
PyDict(items) == Py("dict", "", 0, items)
PyExc(name) == Py("exception", name, 0, {})

\* int(text) for the texts that are numerals
IntOf == ("0" :> 0) @@ ("1" :> 1) @@ ("5" :> 5)

\* the values the solver draws a numeric witness from (the reals, scaled down)
NumMax == 6

\* the strings the solver draws a string witness from, besides the known value: the
\* empty string and a text the solver prints with a \u{...} escape
EscapedText == "\\u{47d}"
StrDomain(known) == {known, "", EscapedText}

\* lines 211-227: the sort of every variable
Sort(ctype) ==
    IF ctype \in {"number", "boolean", "array"} THEN ctype ELSE "string"

\* lines 229-258: the known value as the solver gets it, or the exception raised
KnownValue(ctype, known_value) ==
    CASE Sort(ctype) = "number" ->
            IF known_value.t = "str"
            THEN IF known_value.s \in DOMAIN IntOf THEN [ok |-> TRUE, v |-> IntOf[known_value.s]]
                 ELSE [ok |-> FALSE, v |-> "ValueError"]
            ELSE [ok |-> TRUE, v |-> known_value.n]
      [] Sort(ctype) = "boolean" ->
            IF known_value.t = "str"
            THEN IF known_value.s \in {"true", "True", "TRUE"} THEN [ok |-> TRUE, v |-> TRUE]
                 ELSE IF known_value.s \in {"false", "False", "FALSE"} THEN [ok |-> TRUE, v |-> FALSE]
                 ELSE [ok |-> FALSE, v |-> "ValueError"]
            ELSE [ok |-> TRUE, v |-> known_value.n # 0]
      [] Sort(ctype) = "array" -> [ok |-> FALSE, v |-> "ValueError"]
      [] OTHER -> [ok |-> TRUE, v |-> known_value.s]

Domain(ctype, kv) ==
    CASE Sort(ctype) = "number"  -> 0..NumMax
      [] Sort(ctype) = "boolean" -> BOOLEAN
      [] OTHER                   -> StrDomain(kv)

\* build_z3_constraints returns None for a leaf, for and / or (which add their
\* conjunction or disjunction to the solver themselves) and for a not or an assert
\* around one of these
RECURSIVE ReturnsNone(_)
ReturnsNone(expr) ==
    IF IsLeaf(expr) THEN TRUE
    ELSE IF expr.op = "assert" THEN ReturnsNone(expr.kids[1])
    ELSE IF expr.op \in {"and", "or"} THEN TRUE
    ELSE IF expr.op = "not" THEN (~IsLeaf(expr.kids[1]) /\ ReturnsNone(expr.kids[1]))
    ELSE FALSE

\* an operand of a binary expression: "bool" for a nested constraint and for a
\* boolean variable or constant, "None" for a nested expression that returns None,
\* "value" for a variable or constant of another sort
Kind(operand, ctype) ==
    IF ~IsLeaf(operand) THEN IF ReturnsNone(operand) THEN "None" ELSE "bool"
    ELSE IF Sort(ctype) = "boolean" THEN "bool" ELSE "value"

\* parse_constant (lines 166-190) is reached only by a leaf that is no variable, that
\* is by one of NotVariables: it raises unless the text is a constant of the sort
ConstantRaises(leaf, ctype) ==
    CASE Sort(ctype) = "boolean" -> leaf.op \notin {"true", "false"}
      [] Sort(ctype) = "number"  -> TRUE
      [] Sort(ctype) = "array"   -> TRUE
      [] OTHER                   -> FALSE

\* the binary operators of lines 137-159 and the operand kinds each accepts; any
\* other combination raises in the solver library
OperatorAccepts(op, lk, rk, ctype) ==
    CASE op \in {"=", "!="} -> lk = rk
      [] op \in {">", ">=", "<", "<=", "subset"} ->
            lk = "value" /\ rk = "value" /\ Sort(ctype) = "number"
      [] op = "=>" -> lk = "bool" /\ rk = "bool"
      [] OTHER -> FALSE

\* build_z3_constraints raises: an unknown operator or structure (lines 161, 163), a
\* constant of the wrong sort, (not c) for a constant c (KeyError), or operands the
\* operator does not accept
RECURSIVE BuildRaises(_, _, _)
BuildRaises(expr, var_names, ctype) ==
    IF IsLeaf(expr) THEN FALSE
    ELSE IF expr.op = "assert" THEN BuildRaises(expr.kids[1], var_names, ctype)
    ELSE IF expr.op \in {"and", "or"}
         THEN \E i \in DOMAIN expr.kids : BuildRaises(expr.kids[i], var_names, ctype)
    ELSE IF expr.op = "not"
         THEN IF IsLeaf(expr.kids[1])
              THEN expr.kids[1].op \notin var_names \/ Sort(ctype) # "boolean"
              ELSE BuildRaises(expr.kids[1], var_names, ctype)
    ELSE IF Len(expr.kids) = 2
         THEN \/ \E i \in 1..2 :
                    IF IsLeaf(expr.kids[i])
                    THEN expr.kids[i].op \notin var_names /\ ConstantRaises(expr.kids[i], ctype)
                    ELSE BuildRaises(expr.kids[i], var_names, ctype)
              \/ ~OperatorAccepts(expr.op, Kind(expr.kids[1], ctype), Kind(expr.kids[2], ctype), ctype)
    ELSE TRUE

\* the variables that occur in a constraint handed to the solver
RECURSIVE Mentioned(_, _)
Mentioned(expr, var_names) ==
    IF IsLeaf(expr) THEN {}
    ELSE IF expr.op = "assert" THEN Mentioned(expr.kids[1], var_names)
    ELSE IF expr.op \in {"and", "or", "not"} \/ Len(expr.kids) = 2
         THEN UNION {IF IsLeaf(expr.kids[i])
                     THEN (IF expr.op \notin {"and", "or"} THEN {expr.kids[i].op} \cap var_names
                           ELSE {})
                     ELSE Mentioned(expr.kids[i], var_names) :
                     i \in IF expr.op = "not" THEN {1} ELSE DOMAIN expr.kids}
    ELSE {}

\* the value of an operand leaf under an assignment: a variable's value, or the
\* constant parse_constant returns
LeafValue(leaf, env, ctype) ==
    IF leaf.op \in DOMAIN env THEN env[leaf.op]
    ELSE IF Sort(ctype) = "boolean" THEN leaf.op = "true"
    ELSE leaf.op

\* Added: the truth, under env, of everything solver.add received while expr was
\* built; Returned: the truth of the constraint the build returned (when it is not None)
RECURSIVE Added(_, _, _)
RECURSIVE Returned(_, _, _)

Added(expr, env, ctype) ==
    IF IsLeaf(expr) THEN TRUE
    ELSE IF expr.op = "assert" THEN Added(expr.kids[1], env, ctype)
    ELSE IF expr.op = "and"
         THEN \A i \in DOMAIN expr.kids :
                 /\ Added(expr.kids[i], env, ctype)
                 /\ ReturnsNone(expr.kids[i]) \/ Returned(expr.kids[i], env, ctype)
    ELSE IF expr.op = "or"
         THEN /\ \A i \in DOMAIN expr.kids : Added(expr.kids[i], env, ctype)
              /\ \/ \A i \in DOMAIN expr.kids : ReturnsNone(expr.kids[i])
                 \/ \E i \in DOMAIN expr.kids :
                       ~ReturnsNone(expr.kids[i]) /\ Returned(expr.kids[i], env, ctype)
    ELSE IF expr.op = "not"
         THEN IsLeaf(expr.kids[1]) \/ Added(expr.kids[1], env, ctype)
    ELSE \A i \in DOMAIN expr.kids : IsLeaf(expr.kids[i]) \/ Added(expr.kids[i], env, ctype)

Returned(expr, env, ctype) ==
    IF expr.op = "assert" THEN Returned(expr.kids[1], env, ctype)
    ELSE IF expr.op = "not"
         THEN IF IsLeaf(expr.kids[1]) THEN ~env[expr.kids[1].op]
              ELSE ~Returned(expr.kids[1], env, ctype)
    ELSE LET left  == expr.kids[1]
             right == expr.kids[2]
             lk == Kind(left, ctype)
             l == IF IsLeaf(left) THEN LeafValue(left, env, ctype)
                  ELSE IF lk = "None" THEN TRUE ELSE Returned(left, env, ctype)
             r == IF IsLeaf(right) THEN LeafValue(right, env, ctype)
                  ELSE IF Kind(right, ctype) = "None" THEN TRUE ELSE Returned(right, env, ctype)
         IN  CASE expr.op = "="  -> l = r
               [] expr.op = "!=" -> l # r
               [] expr.op = ">"  -> l > r
               [] expr.op = ">=" -> l >= r
               [] expr.op = "<"  -> l < r
               [] expr.op \in {"<=", "subset"} -> l <= r
               [] expr.op = "=>" -> (l => r)

\* get_python_value (lines 326-351) of the model's value for a variable: None for a
\* variable the model does not assign, a float for a real, a bool, the text of a
\* string without its quotes
get_python_value(uv, env, mentioned, ctype) ==
    IF uv \notin mentioned THEN PyNone
    ELSE CASE Sort(ctype) = "number"  -> PyFloat(env[uv])
           [] Sort(ctype) = "boolean" -> PyBool(env[uv])
           [] OTHER                   -> PyStr(env[uv])

\* lines 286-296: exactly one unknown is returned directly, any other number of
\* unknowns as a dict
Solution(var_names, known_symbol, env, mentioned, ctype) ==
    LET unknown_vars == var_names \ {known_symbol}
    IN  IF Cardinality(unknown_vars) = 1
        THEN get_python_value(CHOOSE uv \in unknown_vars : TRUE, env, mentioned, ctype)
        ELSE PyDict({<<uv, get_python_value(uv, env, mentioned, ctype)>> : uv \in unknown_vars})

\* solve_for_other_symbol(constraint_dict, known_symbol, known_value): every value the
\* call can return, or the exception it raises
solve_for_other_symbol(constraint_dict, known_symbol, known_value) ==
    IF constraint_dict.constraint = <<>> THEN {PyExc("ValueError")}
    ELSE LET ctype == constraint_dict.type
             parsed_expr == parse_sexp(constraint_dict.constraint)
         IN  IF ParseRaised(parsed_expr) # "" THEN {PyExc(ParseRaised(parsed_expr))}
             ELSE LET var_names == collect_variables(parsed_expr)
                      kv == KnownValue(ctype, known_value)
                  IN  IF known_symbol \notin var_names THEN {PyExc("ValueError")}
                      ELSE IF ~kv.ok THEN {PyExc(kv.v)}
                      ELSE IF BuildRaises(parsed_expr, var_names, ctype) THEN {PyExc("Z3Exception")}
                      ELSE LET models ==
                                 {env \in [var_names -> Domain(ctype, kv.v)] :
                                     /\ env[known_symbol] = kv.v
                                     /\ Added(parsed_expr, env, ctype)
                                     /\ ReturnsNone(parsed_expr) \/ Returned(parsed_expr, env, ctype)}
                           IN  IF models = {} THEN {PyExc("ValueError")}
                               ELSE {Solution(var_names, known_symbol, env,
                                              Mentioned(parsed_expr, var_names), ctype) :
                                        env \in models}

\* no call: the inputs before solve_for_other_symbol is called
SvNoInput ==
    [constraint_dict |-> [constraint |-> <<>>, type |-> ""], known_symbol |-> "",
     known_value |-> PyNone]

\* remove_braces (generator_utils.py:8-19): the escape \u{47d} is rewritten as \u047D;
\* re.sub raises TypeError for anything that is not a string
remove_braces(value) ==
    IF value.t # "str" THEN PyExc("TypeError")
    ELSE IF value.s = EscapedText THEN PyStr("\\u047D")
    ELSE value

-----------------------------------------------------------------------------
(* ObjectGenerator instance pool: objectGenerator.py:68-86 *)

\* selection weight of a permanent instance: [instance_name] * 5
PermWeight == 5

Repeat(x, n) == [i \in 1..n |-> x]

\* a pool is the pair [inst |-> instances, perm |-> permenent_instances]
add_instance_dup(pool, x) ==
    [pool EXCEPT !.inst = Append(pool.inst, x)]

add_instance(pool, x) ==
    IF x \notin Range(pool.inst)
    THEN [pool EXCEPT !.inst = Append(pool.inst, x)]
    ELSE pool

add_permenent_instance(pool, x) ==
    IF x \notin Range(pool.perm)
    THEN [inst |-> pool.inst \o Repeat(x, PermWeight), perm |-> Append(pool.perm, x)]
    ELSE pool

remove_instance(pool, x) ==
    IF x \in Range(pool.inst)
    THEN [pool EXCEPT !.inst = RemoveAt(pool.inst, FirstIndex(pool.inst, x))]
    ELSE pool

RECURSIVE ExtendAll(_, _)
ExtendAll(acc, perm) ==
    IF perm = <<>> THEN acc
    ELSE ExtendAll(acc \o Repeat(Head(perm), PermWeight), Tail(perm))

clean_instance_keep(pool) ==
    [pool EXCEPT !.inst = ExtendAll(pool.inst, pool.perm)]

clean_instance(pool) ==
    [pool EXCEPT !.inst = ExtendAll(<<>>, pool.perm)]

PoolOf(o) == [inst |-> instances[o], perm |-> permenent_instances[o]]

SetPool(o, pool) ==
    /\ instances' = [instances EXCEPT ![o] = pool.inst]
    /\ permenent_instances' = [permenent_instances EXCEPT ![o] = pool.perm]

-----------------------------------------------------------------------------
(* The catalog the CodeGenerator is built from: a small grammar directory   *)
(* with five objects and seven APIs, a blocklist, a limitlist and the two   *)
(* relation tables.                                                         *)

\* object folders present under folder_path
Objects == {"Doc", "app", "Field", "Annotation", "Span"}

\* codeGenerator.py:10-51, restricted to the objects of the catalog
object_instances ==
    [o \in Objects |->
        CASE o = "Doc" -> <<"this", "this", "this">>
          [] o = "app" -> <<"this.app", "app">>
          [] OTHER     -> <<>>]

\* the fields and annotations the preamble fetches: range(1, 11) scaled down to index 1
FieldNames == <<"my_field1">>
AnnotNames == <<"my_annot1">>

\* parameter value tokens: a normalized grammar output is an ordinary literal
\* ("lit"), a numeral ("5") or exactly one of the two quoted placeholders
BUILTINOBJ == "\"<<BUILTINOBJ>>\""
SCRIPTS    == "\"<<SCRIPTS>>\""

GetField    == <<"Doc", "getField">>
OpenDoc     == <<"app", "openDoc">>
FieldValue  == <<"Field", "value">>
SpanText    == <<"Span", "text">>
ExecMenu    == <<"app", "execMenuItem">>
Beep        == <<"app", "beep">>
DocInfo     == <<"Doc", "info">>

ApiKeySet == {GetField, OpenDoc, FieldValue, SpanText, ExecMenu, Beep, DocInfo}

\* an API directory: API_INFO.json (type by parent folder, Return_Type) and the
\* parameter sub-directories, each with the set of values its grammar can expand to
\* (before normalization); empty = the empty.json sentinel
ApiDir(k) ==
    CASE k = GetField   -> [type |-> "method",   ret |-> "Field",   empty |-> FALSE,
                            gens |-> ("cName" :> {"lit", "5"})]
      [] k = OpenDoc    -> [type |-> "method",   ret |-> "Doc",     empty |-> FALSE,
                            gens |-> ("oDoc" :> {"<<BUILTINOBJ>>"})]
      [] k = FieldValue -> [type |-> "property", ret |-> "unknown", empty |-> FALSE,
                            gens |-> ("value" :> {"lit", "<<SCRIPTS>>"})]
      [] k = SpanText   -> [type |-> "property", ret |-> "",        empty |-> TRUE,
                            gens |-> <<>>]
      [] k = ExecMenu   -> [type |-> "method",   ret |-> "void",    empty |-> TRUE,
                            gens |-> <<>>]
      [] k = Beep       -> [type |-> "method",   ret |-> "void",    empty |-> TRUE,
                            gens |-> <<>>]
      [] k = DocInfo    -> [type |-> "property", ret |-> "",        empty |-> FALSE,
                            gens |-> ("title" :> {"lit"}) @@ ("author" :> {"lit"})]

\* config["blocklist"], config["limitlist"]
blocklist == {ExecMenu}
limitlist == {Beep}

\* config["weak_relations"]: key -> related keys (one names an object with no folder)
weak_relations(k) ==
    CASE k = GetField -> <<FieldValue, ExecMenu, Beep, <<"Collab", "addStateModel">> >>
      [] k = Beep     -> <<Beep>>
      [] OTHER        -> <<>>

\* config["symbolic_relations"]: "keyA+keyB" -> list of entries; an entry names the
\* correlated parameter of each API (p1, p2) and its symbol (s1, s2), the constraint,
\* its type and the optional sequence flag; a key can hold several entries, each with
\* its own flag
symbolic_relations(comb) ==
    CASE comb = <<GetField, FieldValue>> ->
            << [api1 |-> GetField, api2 |-> FieldValue, p1 |-> "cName", p2 |-> "cValue",
                s1 |-> "x", s2 |-> "y",
                constraint |-> <<"(", "=", " ", "x", " ", "y", ")">>, type |-> "string",
                sequence |-> TRUE] >>
      [] comb = <<OpenDoc, GetField>> ->
            << [api1 |-> OpenDoc, api2 |-> GetField, p1 |-> "oDoc", p2 |-> "cName",
                s1 |-> "x", s2 |-> "y",
                constraint |-> <<"(", "<", " ", "x", " ", "y", ")">>, type |-> "number",
                sequence |-> FALSE],
               [api1 |-> GetField, api2 |-> OpenDoc, p1 |-> "cName", p2 |-> "oDoc",
                s1 |-> "y", s2 |-> "x",
                constraint |-> <<"(", "=", " ", "x", " ", "y", ")">>, type |-> "string",
                sequence |-> TRUE] >>
      [] OTHER -> <<>>

\* random suffixes of freshly minted names (generate_random_string(5), 4 hex digits),
\* scaled down to one suffix each: a name minted twice for the same type collides
Suffixes   == {"a"}
OsSuffixes == {"a"}

-----------------------------------------------------------------------------
(* ObjectGenerator tables: objectGenerator.py:37-66 *)

method_generators(o)           == {k \in ApiKeySet : k[1] = o /\ ApiDir(k).type = "method"   /\ k \notin blocklist}
property_generators(o)         == {k \in ApiKeySet : k[1] = o /\ ApiDir(k).type = "property" /\ k \notin blocklist}
method_generators_invalid(o)   == {k \in ApiKeySet : k[1] = o /\ ApiDir(k).type = "method"   /\ k \in blocklist}
property_generators_invalid(o) == {k \in ApiKeySet : k[1] = o /\ ApiDir(k).type = "property" /\ k \in blocklist}

\* _get_api_list: the API names of all four tables
api_list(o) ==
    {k[2] : k \in method_generators(o) \cup property_generators(o)
                  \cup method_generators_invalid(o) \cup property_generators_invalid(o)}

-----------------------------------------------------------------------------
(* Raw call records: apiGenerator.py:95-144, 169-197; objectGenerator.py:119-149 *)

EmptyParams == [p \in {} |-> ""]

\* the absent result (Python None) and the raised ValueError, as records
NoneCall ==
    [object_name |-> "", instance_name |-> "", api_name |-> "", api_type |-> "None",
     return_type |-> "", return_value |-> "", params |-> EmptyParams]
RaiseCall == [NoneCall EXCEPT !.api_type = "ValueError"]

IsCall(raw) == raw.api_type \in {"method", "property"}

\* normalize_generated_value on a grammar output, at the granularity of tokens:
\* a placeholder gets its quotes, a numeral stays as it is, anything else is an
\* ordinary literal
NormTok(v) ==
    IF v = "<<BUILTINOBJ>>" THEN BUILTINOBJ
    ELSE IF v = "<<SCRIPTS>>" THEN SCRIPTS
    ELSE IF v \in DOMAIN IntOf THEN v
    ELSE "lit"

\* the values one parameter can take: the normalized expansion; an ordinary literal
\* when the counterfactual fires, when expansion fails (3-character fallback), when the
\* placeholder is replaced by printable text, or for nPage / nPageNum
ParamValues(p, g) ==
    IF p \in {"nPage", "nPageNum"} THEN {"lit"}
    ELSE {NormTok(v) : v \in g} \cup {"lit"}

ParamMaps(gens) ==
    {f \in [DOMAIN gens -> {"lit", BUILTINOBJ, SCRIPTS} \cup DOMAIN IntOf] :
        \A p \in DOMAIN gens : f[p] \in ParamValues(p, gens[p])}

MethodTrivial   == {"unknown", "Boolean", "String", "Integer", "Number", "void"}
PropertyTrivial == {"unknown", "Boolean", "String", "Integer"}

\* <NormalizedReturnType>_<rand5>, or "" for an absent or trivial return type
ReturnValues(ret, trivial) ==
    IF ret # "" /\ ret \notin trivial THEN {ret \o "_" \o s : s \in Suffixes} ELSE {""}

\* MethodGenerator.generate_api_call_raw
MethodRaw(k) ==
    LET d == ApiDir(k)
    IN  {[object_name |-> "", instance_name |-> "", api_name |-> k[2], api_type |-> "method",
          return_type |-> d.ret, return_value |-> rv, params |-> f] :
            rv \in ReturnValues(d.ret, MethodTrivial),
            f \in IF d.empty \/ DOMAIN d.gens = {} THEN {EmptyParams} ELSE ParamMaps(d.gens)}

\* PropertyGenerator.generate_api_call_raw: ValueError unless exactly one generator
PropertyRaw(k) ==
    LET d == ApiDir(k)
    IN  IF d.empty \/ DOMAIN d.gens = {}
        THEN {[object_name |-> "", instance_name |-> "", api_name |-> k[2], api_type |-> "property",
               return_type |-> d.ret, return_value |-> rv, params |-> EmptyParams] :
                 rv \in ReturnValues(d.ret, PropertyTrivial)}
        ELSE IF Cardinality(DOMAIN d.gens) # 1 THEN {RaiseCall}
        ELSE {[object_name |-> "", instance_name |-> "", api_name |-> k[2], api_type |-> "property",
               return_type |-> d.ret, return_value |-> rv, params |-> (k[2] :> v)] :
                 rv \in ReturnValues(d.ret, PropertyTrivial),
                 v \in UNION {ParamValues(p, d.gens[p]) : p \in DOMAIN d.gens}}

\* get_specific_api_call_raw without its first check (lines 120-122): random.choice on
\* an empty list raises
get_specific_api_call_raw_unguarded(inst, o, a) ==
    IF inst[o] = <<>> THEN {RaiseCall}
    ELSE IF a \notin api_list(o) THEN {NoneCall}
    ELSE LET k == <<o, a>>
             gen == IF ApiDir(k).type = "method" THEN MethodRaw(k) ELSE PropertyRaw(k)
         IN  {IF IsCall(r) THEN [r EXCEPT !.object_name = o, !.instance_name = i] ELSE r :
                r \in gen, i \in Range(inst[o])}

\* ObjectGenerator.get_specific_api_call_raw: the possible results for object o, API a,
\* with the pools inst
get_specific_api_call_raw(inst, o, a) ==
    IF inst[o] = <<>> THEN {NoneCall}
    ELSE IF a \notin api_list(o) THEN {NoneCall}
    ELSE LET k == <<o, a>>
             gen == IF ApiDir(k).type = "method" THEN MethodRaw(k) ELSE PropertyRaw(k)
         IN  {IF IsCall(r) THEN [r EXCEPT !.object_name = o, !.instance_name = i] ELSE r :
                r \in gen, i \in Range(inst[o])}

-----------------------------------------------------------------------------
(* Statement text: generator_utils.py:176-237 *)

Seg(guard, code) == [guard |-> guard, code |-> code]

HasPlaceholder(params) == \E p \in DOMAIN params : params[p] \in {BUILTINOBJ, SCRIPTS}

\* a statement: its segments in order (guarded by try{...}catch(e){} or bare), the API
\* it calls, the return-capture variable it assigns, whether it declares that variable
\* with var, the hook object it defines, and whether an unresolved placeholder is among
\* its parameter values
Stmt(kind, segs, api, rv, decl, os, ph) ==
    [kind |-> kind, segs |-> segs, api |-> api, rv |-> rv, decl |-> decl, os |-> os, ph |-> ph]

NoneStmt  == Stmt("None", <<>>, <<>>, "", FALSE, "", FALSE)
RaiseStmt == Stmt("ValueError", <<>>, <<>>, "", FALSE, "", FALSE)
EmptyStmt == Stmt("empty", <<>>, <<>>, "", FALSE, "", FALSE)

\* construct_statement: None without a receiver, ValueError for a property with more
\* than one parameter or an unknown type, else "ok"
construct_statement(raw) ==
    IF raw.instance_name = "" THEN "None"
    ELSE IF raw.api_type = "method" THEN "ok"
    ELSE IF raw.api_type = "property"
         THEN IF DOMAIN raw.params = {} THEN "ok"
              ELSE IF Cardinality(DOMAIN raw.params) # 1 THEN "ValueError"
              ELSE "ok"
    ELSE "ValueError"

\* build_statement_from_raw_call: try{<text>} catch(e){};
build_statement_from_raw_call(raw) ==
    LET c == construct_statement(raw)
    IN  IF c = "None" THEN NoneStmt
        ELSE IF c = "ValueError" THEN RaiseStmt
        ELSE Stmt("call", <<Seg(TRUE, "call")>>, <<raw.object_name, raw.api_name>>,
                  raw.return_value, raw.return_value # "", "", HasPlaceholder(raw.params))

-----------------------------------------------------------------------------
(* Helpers of the relation engine: codeGenerator.py:134-242, generator_utils.py:37-131 *)

NoneKey == <<>>

\* all_api_keys (codeGenerator.py:138-148): a blocklisted key is left out, a limited
\* key is listed once, any other key five times
api_key_weight(k) == IF k \in blocklist THEN 0 ELSE IF k \in limitlist THEN 1 ELSE 5

all_api_keys ==
    {k \in UNION {{<<o, a>> : a \in api_list(o)} : o \in Objects} : api_key_weight(k) > 0}

\* pick_random_api_key(api_list): the keys the reroll loop can exit with. A blocklisted
\* pick is replaced by a pick from all_api_keys, a limited pick is kept with
\* probability 0.2 and rerolled otherwise, any other pick is kept.
pick_random_api_key(keys) ==
    IF keys = {} THEN {NoneKey}
    ELSE (keys \ blocklist) \cup (IF keys \cap blocklist # {} THEN all_api_keys ELSE {})

\* parse_api_key: "Object.api" -> (object_name, api_name), (None, None) otherwise
parse_api_key(k) == IF Len(k) = 2 THEN k ELSE <<"None", "None">>

\* what one attempt of a hook / loop body can do: pick a key, generate its raw call,
\* render it
InnerOutcomes(inst) ==
    UNION {{IF r = NoneCall THEN "fail"
            ELSE IF r = RaiseCall THEN "ValueError"
            ELSE IF build_statement_from_raw_call(r).kind = "call" THEN "ok" ELSE "fail" :
               r \in get_specific_api_call_raw(inst, parse_api_key(k)[1], parse_api_key(k)[2])} :
           k \in pick_random_api_key(all_api_keys)}

HOOKVALUE == "\"hook\""
HOOKBODY  == "hook"

\* generate_parameter_value_code: "" when every attempt fails, else the quoted body;
\* "ValueError" when an attempt raises
generate_parameter_value_code(inst) ==
    LET io == InnerOutcomes(inst)
    IN  (IF "fail" \in io THEN {""} ELSE {})
        \cup (IF "ok" \in io THEN {HOOKVALUE} ELSE {})
        \cup (IF "ValueError" \in io THEN {"ValueError"} ELSE {})

\* generate_hook_code: the same, unquoted
generate_hook_code(inst) ==
    LET io == InnerOutcomes(inst)
    IN  (IF "fail" \in io THEN {""} ELSE {})
        \cup (IF "ok" \in io THEN {HOOKBODY} ELSE {})
        \cup (IF "ValueError" \in io THEN {"ValueError"} ELSE {})

LoopStmt == Stmt("loop", <<Seg(TRUE, "for")>>, <<>>, "", FALSE, "", FALSE)

\* generate_loop_statement: "" when every attempt fails, else try{for(...){...};} catch(e){};
generate_loop_statement(inst) ==
    LET io == InnerOutcomes(inst)
    IN  (IF "fail" \in io THEN {EmptyStmt} ELSE {})
        \cup (IF "ok" \in io THEN {LoopStmt} ELSE {})
        \cup (IF "ValueError" \in io THEN {RaiseStmt} ELSE {})

\* key.startswith('o'), for the parameter names of the catalog
StartsWithO(p) == p \in {"oDoc"}

\* replace_statement_parameter(return_dict, obj_set, hook_code): the possible results
replace_statement_parameter(raw, obj_set, hook_code) ==
    IF DOMAIN raw.params = {} THEN {raw}
    ELSE LET obj_list == IF obj_set = {} THEN {"this"} ELSE obj_set
             universe == obj_list \cup {hook_code} \cup {raw.params[p] : p \in DOMAIN raw.params}
             resolved == {f \in [DOMAIN raw.params -> universe] :
                            \A p \in DOMAIN raw.params :
                                f[p] \in (IF raw.params[p] = BUILTINOBJ THEN obj_list
                                          ELSE IF raw.params[p] = SCRIPTS THEN {hook_code}
                                          ELSE {raw.params[p]})}
         IN  {[raw EXCEPT !.params = g] :
                g \in resolved \cup
                      UNION {{[f EXCEPT ![key] = x] : x \in obj_list} :
                             f \in resolved, key \in {p \in DOMAIN raw.params : StartsWithO(p)}}}

\* generate_statement_with_object_hook_simple: (None, None) without parameters, else a
\* randomly chosen parameter of the record is replaced by the hook object os_xxxx
hook_simple(raw) ==
    IF DOMAIN raw.params = {} THEN {[os |-> "", raw |-> raw]}
    ELSE {[os |-> "os_" \o x, raw |-> [raw EXCEPT !.params[key] = "os_" \o x]] :
            x \in OsSuffixes, key \in DOMAIN raw.params}

\* obj_hook_code + ' ' + build_statement_from_raw_call(first_raw_call)
hook_simple_statement(os, raw) ==
    LET b == build_statement_from_raw_call(raw)
    IN  [b EXCEPT !.segs = <<Seg(FALSE, "defs")>> \o b.segs, !.os = os]

\* generate_statement_with_object_hook_complex: (None, None) without parameters or for a
\* property, else the definitions followed by the guarded call on the hook object, the
\* return value assigned without a var declaration
hook_complex(raw) ==
    IF DOMAIN raw.params = {} \/ raw.api_type # "method" THEN {[os |-> "", stmt |-> NoneStmt]}
    ELSE {[os |-> "os_" \o x,
           stmt |-> Stmt("call", <<Seg(FALSE, "defs"), Seg(TRUE, "call")>>,
                         <<raw.object_name, raw.api_name>>, raw.return_value, FALSE,
                         "os_" \o x, HasPlaceholder(raw.params))] :
            x \in OsSuffixes}

-----------------------------------------------------------------------------
(* CodeGenerator construction: codeGenerator.py:56-102 *)

\* largest target count a pass is asked for
MaxCount == 2

RECURSIVE AddPermanentAll(_, _)
AddPermanentAll(pool, names) ==
    IF names = <<>> THEN pool
    ELSE AddPermanentAll(add_permenent_instance(pool, Head(names)), Tail(names))

\* the document-derived instances _get_instances_from_pdf adds to an object's pool
PdfInstances(o) ==
    CASE o = "Doc"        -> <<"fthis">>
      [] o = "Annotation" -> AnnotNames
      [] o = "Field"      -> FieldNames
      [] OTHER            -> <<>>

\* the pool of object o after __init__: _init_object_generators, then _get_instances_from_pdf
InitPool(o) ==
    AddPermanentAll(AddPermanentAll([inst |-> <<>>, perm |-> <<>>], object_instances[o]),
                    PdfInstances(o))

PreStmt(name) == Stmt("pre", <<Seg(TRUE, "decl")>>, <<>>, name, TRUE, "", FALSE)

\* pre_sentences: the fthis alias, then one annotation and one field statement per index
pre_sentences ==
    <<PreStmt("fthis")>> \o
    [j \in 1..(2 * Len(FieldNames)) |->
        IF j % 2 = 1 THEN PreStmt(AnnotNames[(j + 1) \div 2]) ELSE PreStmt(FieldNames[j \div 2])]

\* permenent_object_list after __init__: line 67 discards the union it computes, so only
\* the names added by _get_instances_from_pdf are in it
InitPermanentObjectList ==
    {"fthis"} \cup Range(AnnotNames) \cup Range(FieldNames)

GenInit ==
    /\ pc = "idle"
    /\ instances = [o \in Objects |-> InitPool(o).inst]
    /\ permenent_instances = [o \in Objects |-> InitPool(o).perm]
    /\ permenent_object_list = InitPermanentObjectList
    /\ tmp_object_list = {}
    /\ statements = <<>>
    /\ generated_count = 0
    /\ count = 0
    /\ weak_relation = FALSE
    /\ symbolic_relation = FALSE
    /\ first_raw_call = NoneCall
    /\ first_statement = NoneStmt
    /\ second_api_key = NoneKey
    /\ last_iter = "none"
    /\ selected = NoneKey
    /\ wiring = <<>>

ExIdle ==
    /\ ex_grammar = <<>>
    /\ ex_max_depth = 0
    /\ ex_stack = <<>>
    /\ ex_ret = <<>>
    /\ ex_opaque = <<>>
    /\ ex_status = "idle"
    /\ ex_peak = 0

NvIdle ==
    /\ nv_in = <<>>
    /\ nv_out = <<>>
    /\ nv_out2 = <<>>
    /\ nv_pc = "idle"

SvIdle ==
    /\ sv_in = SvNoInput
    /\ sv_out = PyNone
    /\ sv_pc = "idle"

\* no construction under way
LdNoDir == [api_info |-> "", files |-> <<>>]

LdIdle ==
    /\ ld_pc = "idle"
    /\ ld_dir = LdNoDir
    /\ ld_idx = 0
    /\ ld_grammar = <<>>
    /\ ld_start = ""
    /\ ld_exc = ""
    /\ ld_apis = {}

\* no raw call of a single generator under way
RwNoGen == [api_type |-> "", return_type |-> <<>>, params |-> {}]
RwNoOut == [api_type |-> "", return_type |-> "", return_value |-> "", params |-> {}]

RwIdle ==
    /\ rw_pc = "idle"
    /\ rw_gen = RwNoGen
    /\ rw_rand = <<>>
    /\ rw_out = RwNoOut

\* no monitor constructed
MnIdle ==
    /\ mn_pc = "idle"
    /\ mn_kind = ""
    /\ mn_status = ""
    /\ mn_timeOut = 0
    /\ mn_tries = 0
    /\ mn_polls = 0
    /\ mn_app = FALSE
    /\ mn_alive = FALSE
    /\ mn_expired = FALSE

Init == GenInit /\ ExIdle /\ NvIdle /\ SvIdle /\ LdIdle /\ RwIdle /\ MnIdle

-----------------------------------------------------------------------------
(* generate_api_statements_with_relation / generate_api_statements *)

\* the while condition of both loops
LoopCond_le(gc, n) == gc <= n

LoopCond(gc, n) == gc < n

\* one assignment to every variable of the generator but selected; w is the record of
\* the wiring attempts when a pair is emitted
GenStepW(pc2, inst2, tmp2, stmts2, gc2, frc, fst, sk, li, w) ==
    /\ pc' = pc2
    /\ wiring' = w
    /\ instances' = inst2
    /\ tmp_object_list' = tmp2
    /\ statements' = stmts2
    /\ generated_count' = gc2
    /\ first_raw_call' = frc
    /\ first_statement' = fst
    /\ second_api_key' = sk
    /\ last_iter' = li
    /\ UNCHANGED <<permenent_instances, permenent_object_list, count, weak_relation,
                   symbolic_relation, exVars, nvVars, svVars, ldVars, rwVars, mnVars>>

GenStep(pc2, inst2, tmp2, stmts2, gc2, frc, fst, sk, li) ==
    GenStepW(pc2, inst2, tmp2, stmts2, gc2, frc, fst, sk, li, <<>>)

Retry_counted(tmp2, li) ==
    GenStep("loop", instances, tmp2, statements, generated_count + 1, NoneCall, NoneStmt, NoneKey, li)

\* `continue`: back to the loop head with nothing emitted
Retry(tmp2, li) ==
    GenStep("loop", instances, tmp2, statements, generated_count, NoneCall, NoneStmt, NoneKey, li)

\* an exception leaves the loop and the method; w records the wiring attempts made
\* before it
RaiseW(tmp2, w) ==
    GenStepW("raised", instances, tmp2, statements, generated_count, NoneCall, NoneStmt,
             NoneKey, "raise", w)

Raise(tmp2) == RaiseW(tmp2, <<>>)

\* after an emission: the loop test (the explicit breaks test the same condition)
AfterEmit(head, gc2) == IF LoopCond(gc2, count) THEN head ELSE "done"

\* what a pass finds when it starts: "restart" when a pool holds anything but the
\* permanent instances at their weight or the temporary set is not empty
StartKind ==
    IF tmp_object_list # {}
       \/ \E o \in Objects : instances[o] # ExtendAll(<<>>, permenent_instances[o])
    THEN "restart" ELSE "start"

\* lines 121-136: clean every pool, empty the temporary set, dispatch on the flags
StartPass ==
    /\ pc \in {"idle", "done", "raised"}
    /\ \E n \in 0..MaxCount, w \in BOOLEAN, s \in BOOLEAN :
        /\ count' = n
        /\ weak_relation' = w
        /\ symbolic_relation' = s
        /\ pc' = IF ~LoopCond(0, n) THEN "done" ELSE IF ~w /\ ~s THEN "noflag" ELSE "loop"
    /\ instances' = [o \in Objects |-> clean_instance(PoolOf(o)).inst]
    /\ tmp_object_list' = {}
    /\ statements' = pre_sentences
    /\ generated_count' = 0
    /\ first_raw_call' = NoneCall
    /\ first_statement' = NoneStmt
    /\ second_api_key' = NoneKey
    /\ last_iter' = StartKind
    /\ selected' = NoneKey
    /\ wiring' = <<>>
    /\ UNCHANGED <<permenent_instances, permenent_object_list, exVars, nvVars, svVars, ldVars, rwVars, mnVars>>

\* pool operations a caller makes on an Object Generator between construction and the
\* first pass (objectGenerator.py:68-80)
ExternalNames == {"my_field1", "Field_a"}

ExternalAddInstance ==
    /\ pc = "idle"
    /\ \E x \in ExternalNames : SetPool("Field", add_instance(PoolOf("Field"), x))
    /\ UNCHANGED <<pc, permenent_object_list, tmp_object_list, statements, generated_count,
                   count, weak_relation, symbolic_relation, first_raw_call, first_statement,
                   second_api_key, last_iter, selected, wiring, exVars, nvVars, svVars, ldVars, rwVars, mnVars>>

ExternalRemoveInstance ==
    /\ pc = "idle"
    /\ \E x \in ExternalNames : SetPool("Field", remove_instance(PoolOf("Field"), x))
    /\ UNCHANGED <<pc, permenent_object_list, tmp_object_list, statements, generated_count,
                   count, weak_relation, symbolic_relation, first_raw_call, first_statement,
                   second_api_key, last_iter, selected, wiring, exVars, nvVars, svVars, ldVars, rwVars, mnVars>>

\* MethodGenerator / PropertyGenerator.generate_api_call_statement through
\* ObjectGenerator.get_specific_api_call_statement: the statement is rendered without
\* placeholder substitution and without a return-capture variable
get_specific_api_call_statement(inst, o, a) ==
    IF inst[o] = <<>> THEN {NoneStmt}
    ELSE IF a \notin api_list(o) THEN {NoneStmt}
    ELSE LET k == <<o, a>>
             d == ApiDir(k)
         IN  IF d.empty \/ DOMAIN d.gens = {}
             THEN {Stmt("call", <<Seg(TRUE, "call")>>, k, "", FALSE, "", FALSE)}
             ELSE IF d.type = "property" /\ Cardinality(DOMAIN d.gens) # 1 THEN {RaiseStmt}
             ELSE {Stmt("call", <<Seg(TRUE, "call")>>, k, "", FALSE, "", HasPlaceholder(f)) :
                     f \in ParamMaps(d.gens)}

\* ObjectGenerator.generate_api_call_raw / generate_api_call_statement
\* (objectGenerator.py:151-168): None without APIs, else the specific call for a
\* random name of api_list; key is the name chosen
generate_api_call_raw(inst, o) ==
    IF api_list(o) = {} THEN {[key |-> <<>>, raw |-> NoneCall]}
    ELSE UNION {{[key |-> <<o, a>>, raw |-> r] :
                    r \in get_specific_api_call_raw(inst, o, a)} : a \in api_list(o)}

generate_api_call_statement(inst, o) ==
    IF api_list(o) = {} THEN {[key |-> <<>>, stmt |-> NoneStmt]}
    ELSE UNION {{[key |-> <<o, a>>, stmt |-> st] :
                    st \in get_specific_api_call_statement(inst, o, a)} : a \in api_list(o)}

\* generate_api_statements, one iteration (lines 108-116)
NoFlagIter ==
    /\ pc = "noflag"
    /\ \E o \in Objects :
         IF api_list(o) = {}
         THEN /\ selected' = NoneKey
              /\ GenStep("noflag", instances, tmp_object_list, statements, generated_count,
                         NoneCall, NoneStmt, NoneKey, "fail_first")
         ELSE \E a \in api_list(o) :
              /\ selected' = <<o, a>>
              /\ \E st \in get_specific_api_call_statement(instances, o, a) :
                 IF st.kind = "None"
                 THEN GenStep("noflag", instances, tmp_object_list, statements, generated_count,
                              NoneCall, NoneStmt, NoneKey, "fail_first")
                 ELSE IF st.kind = "ValueError" THEN Raise(tmp_object_list)
                 ELSE GenStep(AfterEmit("noflag", generated_count + 1), instances, tmp_object_list,
                              Append(statements, st), generated_count + 1,
                              NoneCall, NoneStmt, NoneKey, "single")


\* lines 270-276 / 390-397: a non-empty return value joins the temporary set, and the
\* pool of its return type unless that type is Doc or no object of the catalog
register_tmp(tmp, raw) == IF raw.return_value # "" THEN tmp \cup {raw.return_value} ELSE tmp

\* a registration that does not exempt the Doc return type
register_pool_with_doc(inst, raw) ==
    IF raw.return_value # "" /\ raw.return_type \in Objects
    THEN [inst EXCEPT ![raw.return_type] =
            add_instance([inst |-> inst[raw.return_type],
                          perm |-> permenent_instances[raw.return_type]], raw.return_value).inst]
    ELSE inst

register_pool(inst, raw) ==
    IF raw.return_value # "" /\ raw.return_type # "Doc" /\ raw.return_type \in Objects
    THEN [inst EXCEPT ![raw.return_type] =
            add_instance([inst |-> inst[raw.return_type],
                          perm |-> permenent_instances[raw.return_type]], raw.return_value).inst]
    ELSE inst

CurrentKey(raw) == <<raw.object_name, raw.api_name>>

\* lines 248-264: the first call of an iteration
PickFirst ==
    /\ pc = "loop"
    /\ \E k \in pick_random_api_key(all_api_keys) :
       /\ selected' = k
       /\ \E raw \in get_specific_api_call_raw(instances, parse_api_key(k)[1], parse_api_key(k)[2]) :
          IF parse_api_key(k)[1] \notin Objects \/ raw = NoneCall
          THEN Retry(tmp_object_list, "fail_first")
          ELSE IF raw = RaiseCall THEN Raise(tmp_object_list)
          ELSE \E code \in generate_parameter_value_code(instances) :
                 IF code = "ValueError" THEN Raise(tmp_object_list)
                 ELSE \E r2 \in replace_statement_parameter(
                                   raw, permenent_object_list \cup tmp_object_list, code) :
                        LET st == build_statement_from_raw_call(r2)
                        IN  IF st.kind = "None" THEN Retry(tmp_object_list, "fail_first")
                            ELSE IF st.kind = "ValueError" THEN Raise(tmp_object_list)
                            ELSE GenStep("first", instances, tmp_object_list, statements,
                                         generated_count, r2, st, NoneKey, last_iter)

\* lines 267-279: p < 0.5, the first statement is emitted alone
EmitSingle ==
    /\ pc = "first"
    /\ UNCHANGED selected
    /\ GenStep(AfterEmit("loop", generated_count + 1),
               register_pool(instances, first_raw_call),
               register_tmp(tmp_object_list, first_raw_call),
               Append(statements, first_statement), generated_count + 1,
               NoneCall, NoneStmt, NoneKey, "single")

\* lines 280-284: 0.5 <= p < 0.55, a loop statement is emitted instead
EmitLoop ==
    /\ pc = "first"
    /\ UNCHANGED selected
    /\ \E ls \in generate_loop_statement(instances) :
         IF ls.kind = "ValueError" THEN Raise(tmp_object_list)
         ELSE GenStep(AfterEmit("loop", generated_count + 1), instances, tmp_object_list,
                      Append(statements, ls), generated_count + 1,
                      NoneCall, NoneStmt, NoneKey, "loop")

\* lines 286-304: the keys the second call can be chosen from
SecondKeys ==
    (IF weak_relation /\ Range(weak_relations(CurrentKey(first_raw_call))) # {}
     THEN pick_random_api_key(Range(weak_relations(CurrentKey(first_raw_call)))) \ blocklist
     ELSE {})
    \cup pick_random_api_key(all_api_keys)

\* lines 286-310: choose the second key; an unknown object restarts the iteration
PickSecond ==
    /\ pc = "first"
    /\ \E k \in SecondKeys :
         /\ selected' = k
         /\ IF k = NoneKey \/ parse_api_key(k)[1] \notin Objects
            THEN Retry(tmp_object_list, "fail_second")
            ELSE GenStep("second", instances, tmp_object_list, statements, generated_count,
                         first_raw_call, first_statement, k, last_iter)

\* a pair emission that advances the count by 1
EmitPair_counted_once(tmp0, fraw, sraw, ordered, w) ==
    GenStepW(AfterEmit("loop", generated_count + 1),
             register_pool(register_pool(instances, fraw), sraw),
             register_tmp(register_tmp(tmp0, fraw), sraw),
             statements \o ordered, generated_count + 1,
             NoneCall, NoneStmt, NoneKey, "pair", w)

\* lines 390-400 / 412-426 / 436-450: both statements appended in the given order, both
\* return values registered, the count advanced by 2
EmitPair(tmp0, fraw, sraw, ordered, w) ==
    GenStepW(AfterEmit("loop", generated_count + 2),
             register_pool(register_pool(instances, fraw), sraw),
             register_tmp(register_tmp(tmp0, fraw), sraw),
             statements \o ordered, generated_count + 2,
             NoneCall, NoneStmt, NoneKey, "pair", w)

\* the second call as far as emission reads it: return type, return value (what gets
\* registered), parameter names, and the rendered statement
Outcome(raw) ==
    [return_type |-> raw.return_type, return_value |-> raw.return_value,
     pnames |-> DOMAIN raw.params,
     stmt |-> IF raw = NoneCall THEN NoneStmt
              ELSE IF raw = RaiseCall THEN RaiseStmt
              ELSE build_statement_from_raw_call(raw)]

\* lines 406-411 / 430-435: the second raw call, its placeholders replaced; the
\* hook-code generator is only reached when the raw call exists
SecondRaws(tmp0) ==
    LET codes == generate_parameter_value_code(instances)
    IN  UNION {IF ~IsCall(raw) THEN {raw}
               ELSE UNION {IF code = "ValueError" THEN {RaiseCall}
                           ELSE replace_statement_parameter(raw, permenent_object_list \cup tmp0, code) :
                           code \in codes} :
               raw \in get_specific_api_call_raw(instances, second_api_key[1], second_api_key[2])}

\* lines 404-426 and 428-450: the second call generated independently
PlainSecond(tmp0, fst, fraw) ==
    \E out \in {Outcome(r) : r \in SecondRaws(tmp0)} :
       IF out.stmt.kind = "None" THEN Retry(tmp0, "fail_second")
       ELSE IF out.stmt.kind = "ValueError" THEN Raise(tmp0)
       ELSE EmitPair(tmp0, fraw, out, <<fst, out.stmt>>, <<>>)

\* lines 428-450: no symbolic attempt
SecondPlain ==
    /\ pc = "second"
    /\ UNCHANGED selected
    /\ PlainSecond(tmp_object_list, first_statement, first_raw_call)

\* info[api_key]: the correlated parameter of that API in a relation entry
InfoParam(info, k) ==
    IF k = info.api1 THEN info.p1 ELSE IF k = info.api2 THEN info.p2 ELSE "KeyError"

\* info[f"{api_key}.{param}"]: the symbol that stands for that parameter
InfoSymbol(info, k) ==
    IF k = info.api1 THEN info.s1 ELSE IF k = info.api2 THEN info.s2 ELSE "KeyError"

\* what one wiring attempt did: how it ended, whether the solver returned a witness,
\* and the second call's correlated parameter before and after it ("absent" when the
\* record has no such parameter)
WiringRecord(status, sat, before, after) ==
    [status |-> status, sat |-> sat, before |-> before, after |-> after]

ParamOrAbsent(raw, p) == IF p \in DOMAIN raw.params THEN raw.params[p] ELSE "absent"

\* the entry's wiring without the try / except of lines 356 and 365: an exception of
\* the solver leaves the loop
OverrideOne_uncaught(info, fraw, sraw, cur, sec) ==
    LET before == ParamOrAbsent(sraw, InfoParam(info, sec))
    IN  IF sraw = RaiseCall THEN {[raw |-> sraw, recs |-> <<>>]}
        ELSE IF info.constraint = <<"none">> THEN {[raw |-> sraw, recs |-> <<>>]}
        ELSE IF InfoParam(info, cur) = "KeyError" \/ InfoParam(info, cur) \notin DOMAIN fraw.params
                  \/ InfoParam(info, sec) = "KeyError"
             THEN {[raw |-> sraw, recs |-> <<WiringRecord("KeyError", FALSE, before, before)>>]}
             ELSE {LET cleaned == remove_braces(solved_value)
                   IN  IF solved_value.t = "exception"
                       THEN [raw |-> RaiseCall,
                             recs |-> <<WiringRecord(solved_value.s, FALSE, before, before)>>]
                       ELSE IF cleaned.t = "exception"
                       THEN [raw |-> sraw,
                             recs |-> <<WiringRecord(cleaned.s, TRUE, before, before)>>]
                       ELSE [raw |-> [sraw EXCEPT !.params =
                                        (InfoParam(info, sec) :> cleaned.s) @@ sraw.params],
                             recs |-> <<WiringRecord("wired", TRUE, before, cleaned.s)>>] :
                   solved_value \in solve_for_other_symbol(
                                       info, InfoSymbol(info, cur),
                                       PyStr(fraw.params[InfoParam(info, cur)]))}

\* lines 349-367, one entry: skipped when the constraint is "none"; the override of
\* line 364 happens unless a lookup, the solver or remove_braces raises (the
\* exception is caught and the entry abandoned)
OverrideOne(info, fraw, sraw, cur, sec) ==
    LET before == ParamOrAbsent(sraw, InfoParam(info, sec))
    IN  IF info.constraint = <<"none">> THEN {[raw |-> sraw, recs |-> <<>>]}
        ELSE IF InfoParam(info, cur) = "KeyError" \/ InfoParam(info, cur) \notin DOMAIN fraw.params
                  \/ InfoParam(info, sec) = "KeyError"
             THEN {[raw |-> sraw, recs |-> <<WiringRecord("KeyError", FALSE, before, before)>>]}
             ELSE {LET cleaned == remove_braces(solved_value)
                   IN  IF solved_value.t = "exception"
                       THEN [raw |-> sraw,
                             recs |-> <<WiringRecord(solved_value.s, FALSE, before, before)>>]
                       ELSE IF cleaned.t = "exception"
                       THEN [raw |-> sraw,
                             recs |-> <<WiringRecord(cleaned.s, TRUE, before, before)>>]
                       ELSE [raw |-> [sraw EXCEPT !.params =
                                        (InfoParam(info, sec) :> cleaned.s) @@ sraw.params],
                             recs |-> <<WiringRecord("wired", TRUE, before, cleaned.s)>>] :
                   solved_value \in solve_for_other_symbol(
                                       info, InfoSymbol(info, cur),
                                       PyStr(fraw.params[InfoParam(info, cur)]))}

\* the loop of line 349 over the entries, from the results rs of the entries before
RECURSIVE OverrideAll(_, _, _, _, _)
OverrideAll(infos, fraw, rs, cur, sec) ==
    IF infos = <<>> THEN rs
    ELSE OverrideAll(Tail(infos), fraw,
                     UNION {{[raw |-> n.raw, recs |-> r.recs \o n.recs] :
                               n \in OverrideOne(Head(infos), fraw, r.raw, cur, sec)} :
                            r \in rs},
                     cur, sec)

\* lines 316-323
LookupSymbolic(cur, sec) ==
    IF symbolic_relations(<<cur, sec>>) # <<>> THEN symbolic_relations(<<cur, sec>>)
    ELSE symbolic_relations(<<sec, cur>>)

\* lines 374-387
OrderPair(infos, cur, fst, sst) ==
    IF infos[1].sequence /\ infos[1].api1 # cur THEN <<sst, fst>> ELSE <<fst, sst>>

\* lines 342-402: the second call with the correlated parameter solved for
SymbolicSecond(infos, tmp0, fst, fraw) ==
    \E res \in {[out |-> Outcome(r.raw), recs |-> r.recs] :
                  r \in UNION {IF ~IsCall(r2) THEN {[raw |-> r2, recs |-> <<>>]}
                               ELSE OverrideAll(infos, fraw, {[raw |-> r2, recs |-> <<>>]},
                                                CurrentKey(first_raw_call), second_api_key) :
                               r2 \in SecondRaws(tmp0)}} :
       IF res.out.stmt.kind = "None" THEN Retry(tmp0, "fail_second")
       ELSE IF res.out.stmt.kind = "ValueError" THEN RaiseW(tmp0, res.recs)
       ELSE EmitPair(tmp0, fraw, res.out,
                     OrderPair(infos, CurrentKey(first_raw_call), fst, res.out.stmt),
                     res.recs)

\* lines 341-426 after the hook decision: tmp0, fst, fraw are the temporary set, the
\* first statement and the first record as the hook step left them
AfterHook(tmp0, fst, fraw) ==
    LET infos == LookupSymbolic(CurrentKey(first_raw_call), second_api_key)
    IN  IF infos # <<>> THEN SymbolicSecond(infos, tmp0, fst, fraw)
        ELSE PlainSecond(tmp0, fst, fraw)

\* lines 325-332: p < 0.4 (the hook body text does not reach the state: only whether
\* generate_hook_code returned or raised)
HookSimple ==
    /\ pc = "second" /\ symbolic_relation
    /\ UNCHANGED selected
    /\ \/ "ValueError" \in generate_hook_code(instances) /\ Raise(tmp_object_list)
       \/ /\ generate_hook_code(instances) \ {"ValueError"} # {}
          /\ \E h \in hook_simple(first_raw_call) :
                IF h.os = "" THEN AfterHook(tmp_object_list, first_statement, first_raw_call)
                ELSE AfterHook(tmp_object_list \cup {h.os}, hook_simple_statement(h.os, h.raw), h.raw)

\* lines 333-339: 0.4 <= p < 0.8
HookComplex ==
    /\ pc = "second" /\ symbolic_relation
    /\ UNCHANGED selected
    /\ \/ "ValueError" \in generate_hook_code(instances) /\ Raise(tmp_object_list)
       \/ /\ generate_hook_code(instances) \ {"ValueError"} # {}
          /\ \E h \in hook_complex(first_raw_call) :
                IF h.os = "" THEN AfterHook(tmp_object_list, first_statement, first_raw_call)
                ELSE AfterHook(tmp_object_list \cup {h.os}, h.stmt, first_raw_call)

\* p >= 0.8: no hook
HookNone ==
    /\ pc = "second" /\ symbolic_relation
    /\ UNCHANGED selected
    /\ AfterHook(tmp_object_list, first_statement, first_raw_call)

\* lines 315-426: the symbolic attempt
SecondSymbolic == HookSimple \/ HookComplex \/ HookNone

GenNext ==
    \/ StartPass
    \/ NoFlagIter
    \/ PickFirst
    \/ EmitSingle
    \/ EmitLoop
    \/ PickSecond
    \/ SecondPlain
    \/ SecondSymbolic

Next == GenNext \/ ExternalAddInstance \/ ExternalRemoveInstance

Spec == Init /\ [][Next]_vars

-----------------------------------------------------------------------------
(* One Object Generator driven through its four pool operations:            *)
(* objectGenerator.py:68-86                                                  *)

PoolObject == "Field"
PoolNames  == {"my_field1", "Field_a"}

\* a freshly constructed ObjectGenerator: both lists empty
PoolInit ==
    /\ pc = "pool"
    /\ instances = [o \in Objects |-> <<>>]
    /\ permenent_instances = [o \in Objects |-> <<>>]
    /\ permenent_object_list = {}
    /\ tmp_object_list = {}
    /\ statements = <<>>
    /\ generated_count = 0
    /\ count = 0
    /\ weak_relation = FALSE
    /\ symbolic_relation = FALSE
    /\ first_raw_call = NoneCall
    /\ first_statement = NoneStmt
    /\ second_api_key = NoneKey
    /\ last_iter = "new"
    /\ selected = NoneKey
    /\ wiring = <<>>
    /\ ExIdle
    /\ NvIdle
    /\ SvIdle
    /\ LdIdle
    /\ RwIdle
    /\ MnIdle

\* one pool operation: the pool it leaves, and the call recorded in last_iter; the
\* result of the previous call generation is forgotten
PoolStep(pool, call) ==
    /\ SetPool(PoolObject, pool)
    /\ last_iter' = call
    /\ first_raw_call' = NoneCall
    /\ first_statement' = NoneStmt
    /\ selected' = NoneKey
    /\ UNCHANGED <<pc, permenent_object_list, tmp_object_list, statements, generated_count,
                   count, weak_relation, symbolic_relation,
                   second_api_key, wiring, exVars, nvVars, svVars, ldVars, rwVars, mnVars>>

\* one call generation on the object: the record or statement it returns (None, or
\* the raised ValueError), the API name it was about, and the call recorded in
\* last_iter; none of the three methods writes to the pool
PoolCall(raw, stmt, key, call) ==
    /\ first_raw_call' = raw
    /\ first_statement' = stmt
    /\ selected' = key
    /\ last_iter' = call
    /\ UNCHANGED <<poolVars, pc, permenent_object_list, tmp_object_list, statements,
                   generated_count, count, weak_relation, symbolic_relation,
                   second_api_key, wiring, exVars, nvVars, svVars, ldVars, rwVars, mnVars>>

\* the API names a caller asks for: the object's own and one that is in no table
PoolApiNames == api_list(PoolObject) \cup {"noSuchApi"}

CallOps == {"get_specific_api_call_raw", "generate_api_call_raw", "generate_api_call_statement"}

GetSpecificApiCallRaw ==
    /\ pc = "pool"
    /\ \E a \in PoolApiNames :
         \E r \in get_specific_api_call_raw(instances, PoolObject, a) :
            PoolCall(r, NoneStmt, <<PoolObject, a>>, "get_specific_api_call_raw")

GenerateApiCallRaw ==
    /\ pc = "pool"
    /\ \E r \in generate_api_call_raw(instances, PoolObject) :
         PoolCall(r.raw, NoneStmt, r.key, "generate_api_call_raw")

GenerateApiCallStatement ==
    /\ pc = "pool"
    /\ \E r \in generate_api_call_statement(instances, PoolObject) :
         PoolCall(NoneCall, r.stmt, r.key, "generate_api_call_statement")

AddInstance ==
    /\ pc = "pool"
    /\ \E x \in PoolNames :
         PoolStep(add_instance(PoolOf(PoolObject), x),
                  IF x \in Range(instances[PoolObject])
                  THEN "add_instance(" \o x \o ") ignored"
                  ELSE "add_instance(" \o x \o ")")

AddPermanentInstance ==
    /\ pc = "pool"
    /\ \E x \in PoolNames :
         PoolStep(add_permenent_instance(PoolOf(PoolObject), x),
                  "add_permenent_instance(" \o x \o ")")

RemoveInstance ==
    /\ pc = "pool"
    /\ \E x \in PoolNames :
         PoolStep(remove_instance(PoolOf(PoolObject), x), "remove_instance(" \o x \o ")")

CleanInstance ==
    /\ pc = "pool"
    /\ PoolStep(clean_instance(PoolOf(PoolObject)), "clean_instance()")

PoolNext ==
    \/ AddInstance
    \/ AddPermanentInstance
    \/ RemoveInstance
    \/ CleanInstance
    \/ GetSpecificApiCallRaw
    \/ GenerateApiCallRaw
    \/ GenerateApiCallStatement

PoolSpec == PoolInit /\ [][PoolNext]_vars

-----------------------------------------------------------------------------
(* ParameterGenerator._expand_symbol: parameterGenerator.py:54-93 *)

\* the two literal-brace escapes, each one token of a template
LEFT_BRACE  == "<<<LEFT_BRACE>>>"
RIGHT_BRACE == "<<<RIGHT_BRACE>>>"

\* PLACEHOLDER_PATTERN.findall(s): the contents of the non-overlapping matches of
\* \{([^{}]+)\}, left to right, scanning from position i
RECURSIVE FindAll(_, _)
FindAll(s, i) ==
    IF i > Len(s) THEN <<>>
    ELSE IF s[i] # "{" THEN FindAll(s, i + 1)
    ELSE LET braces == {j \in (i + 1)..Len(s) : s[j] \in {"{", "}"}}
         IN  IF braces = {} THEN <<>>
             ELSE LET j == CHOOSE k \in braces : \A m \in braces : k <= m
                  IN  IF s[j] = "}" /\ j > i + 1
                      THEN <<SubSeq(s, i + 1, j - 1)>> \o FindAll(s, j + 1)
                      ELSE FindAll(s, i + 1)

\* .replace("<<<LEFT_BRACE>>>", "{").replace("<<<RIGHT_BRACE>>>", "}")
RestoreBraces(s) ==
    [i \in 1..Len(s) |-> IF s[i] = LEFT_BRACE THEN "{" ELSE IF s[i] = RIGHT_BRACE THEN "}" ELSE s[i]]

\* grammars: non-terminal -> list of templates
GrammarList   == ("A" :> << <<"a", "{", "A", "}">>, <<"b">> >>)
GrammarMutual == ("A" :> << <<"{", "B", "}">> >>) @@ ("B" :> << <<"{", "A", "}">>, <<"b">> >>)
GrammarSelf   == ("A" :> << <<"{", "A", "}">> >>)
GrammarCycle  == ("A" :> << <<"{", "B", "}">> >>) @@ ("B" :> << <<"{", "A", "}">> >>)
GrammarPair   == ("A" :> << <<"{", "A", "}", "{", "B", "}">>, <<"a">> >>)
                 @@ ("B" :> << <<"b">>, <<LEFT_BRACE, "c", RIGHT_BRACE>>, <<"{", "x", "}">> >>)

GrammarBrace  == ("A" :> << <<"{", "B", "}", " ", "{", "C", "}">> >>)
                 @@ ("B" :> << <<LEFT_BRACE, "C", RIGHT_BRACE>> >>)
                 @@ ("C" :> << <<"c">> >>)

Grammars == {GrammarList, GrammarMutual, GrammarSelf, GrammarCycle, GrammarPair, GrammarBrace}

\* max_depth = random.randint(30, 50), scaled down
MinDepth == 1
MaxDepth == 2

\* the interpreter's recursion limit (1000 frames), scaled down with the depths
RecursionLimit == 6

\* lines 60-65: the templates the choice is made from
possible_expansions(g, symbol, depth, max_depth) ==
    LET all == g[Join(symbol)]
        non_recursive == SelectSeq(all, LAMBDA e : ~Contains(e, <<"{">> \o symbol \o <<"}">>))
    IN  IF depth >= max_depth /\ non_recursive # <<>> THEN non_recursive ELSE all

\* a call of _expand_symbol: opaque is what result would be had the frames below
\* returned their text with the escapes still in place
Frame(symbol, depth, phase, result, phs) ==
    [symbol |-> symbol, depth |-> depth, phase |-> phase, result |-> result, phs |-> phs,
     opaque |-> result]

Max(a, b) == IF a >= b THEN a ELSE b

\* generate_parameter: the start symbol is in the grammar, max_depth is drawn
ExStart ==
    /\ ex_status = "idle"
    /\ \E g \in Grammars, d \in MinDepth..MaxDepth :
       \E start \in DOMAIN g :
          /\ ex_grammar' = g
          /\ ex_max_depth' = d
          /\ ex_stack' = <<Frame(<<start>>, 0, "enter", <<>>, <<>>)>>
    /\ ex_status' = "running"
    /\ ex_ret' = <<>>
    /\ ex_opaque' = <<>>
    /\ ex_peak' = 0
    /\ UNCHANGED <<genVars, poolVars, nvVars, svVars, ldVars, rwVars, mnVars>>

\* the frame on top of the stack returns value: the caller substitutes it for the first
\* occurrence of the placeholder it was expanding (line 76); the outermost frame
\* returns it to generate_parameter
ExPop(value, opaque_value) ==
    LET n == Len(ex_stack)
    IN  IF n = 1
        THEN /\ ex_stack' = <<>>
             /\ ex_ret' = value
             /\ ex_opaque' = opaque_value
             /\ ex_status' = "returned"
        ELSE LET parent == ex_stack[n - 1]
                 ph == Head(parent.phs)
             IN  /\ ex_stack' = [SubSeq(ex_stack, 1, n - 1) EXCEPT ![n - 1] =
                                   [parent EXCEPT
                                      !.result = ReplaceFirst(parent.result,
                                                              <<"{">> \o ph \o <<"}">>, value),
                                      !.opaque = ReplaceFirst(parent.opaque,
                                                              <<"{">> \o ph \o <<"}">>, opaque_value),
                                      !.phs = Tail(parent.phs)]]
                 /\ ex_ret' = value
                 /\ ex_opaque' = opaque_value
                 /\ ex_status' = "running"

\* lines 57-58: a symbol that is no non-terminal is returned as a literal
ExLiteral ==
    /\ ex_status = "running"
    /\ ex_stack # <<>>
    /\ LET top == ex_stack[Len(ex_stack)]
       IN  /\ top.phase = "enter"
           /\ Join(top.symbol) \notin DOMAIN ex_grammar
           /\ ExPop(top.symbol, top.symbol)
    /\ UNCHANGED <<ex_grammar, ex_max_depth, ex_peak, genVars, poolVars, nvVars, svVars, ldVars, rwVars, mnVars>>

\* lines 60-72: choose a template and list its placeholders
ExChoose ==
    /\ ex_status = "running"
    /\ ex_stack # <<>>
    /\ LET n == Len(ex_stack)
           top == ex_stack[n]
       IN  /\ top.phase = "enter"
           /\ Join(top.symbol) \in DOMAIN ex_grammar
           /\ \E e \in Range(possible_expansions(ex_grammar, top.symbol, top.depth, ex_max_depth)) :
                ex_stack' = [ex_stack EXCEPT ![n] =
                               Frame(top.symbol, top.depth, "body", e, FindAll(e, 1))]
    /\ UNCHANGED <<ex_grammar, ex_max_depth, ex_ret, ex_opaque, ex_status, ex_peak, genVars, poolVars, nvVars, svVars, ldVars, rwVars, mnVars>>

\* line 75: the recursive call for the next placeholder, at depth + 1
ExDescend ==
    /\ ex_status = "running"
    /\ ex_stack # <<>>
    /\ Len(ex_stack) < RecursionLimit
    /\ LET top == ex_stack[Len(ex_stack)]
       IN  /\ top.phase = "body"
           /\ top.phs # <<>>
           /\ ex_stack' = Append(ex_stack, Frame(Head(top.phs), top.depth + 1, "enter", <<>>, <<>>))
           /\ ex_peak' = Max(ex_peak, top.depth + 1)
    /\ UNCHANGED <<ex_grammar, ex_max_depth, ex_ret, ex_opaque, ex_status, genVars, poolVars, nvVars, svVars, ldVars, rwVars, mnVars>>

\* line 75 with the stack full: RecursionError, which _expand_symbol does not catch
ExOverflow ==
    /\ ex_status = "running"
    /\ ex_stack # <<>>
    /\ Len(ex_stack) >= RecursionLimit
    /\ LET top == ex_stack[Len(ex_stack)]
       IN  top.phase = "body" /\ top.phs # <<>>
    /\ ex_stack' = <<>>
    /\ ex_status' = "RecursionError"
    /\ UNCHANGED <<ex_grammar, ex_max_depth, ex_ret, ex_opaque, ex_peak, genVars, poolVars, nvVars, svVars, ldVars, rwVars, mnVars>>

\* lines 78-81: every placeholder done, the escapes restored, the text returned
ExReturn ==
    /\ ex_status = "running"
    /\ ex_stack # <<>>
    /\ LET top == ex_stack[Len(ex_stack)]
       IN  /\ top.phase = "body"
           /\ top.phs = <<>>
           /\ ExPop(RestoreBraces(top.result), top.opaque)
    /\ UNCHANGED <<ex_grammar, ex_max_depth, ex_peak, genVars, poolVars, nvVars, svVars, ldVars, rwVars, mnVars>>

ExNext == ExStart \/ ExLiteral \/ ExChoose \/ ExDescend \/ ExOverflow \/ ExReturn

ExpandSpec == Init /\ [][ExNext]_vars

-----------------------------------------------------------------------------
(* infer_value_type, parse_array_elements, parse_object_members and          *)
(* normalize_generated_value: generator_utils.py:240-533                     *)

\* is_number (lines 255-282) on the part after an optional leading '-'
RECURSIVE DigitsAndDots(_, _, _)
DigitsAndDots(s, dot_count, has_digit) ==
    IF s = <<>> THEN has_digit
    ELSE IF IsDigit(Head(s)) THEN DigitsAndDots(Tail(s), dot_count, TRUE)
    ELSE IF Head(s) = "." THEN (dot_count + 1 <= 1 /\ DigitsAndDots(Tail(s), dot_count + 1, has_digit))
    ELSE FALSE

is_number(s) ==
    IF s = <<>> THEN FALSE
    ELSE IF s[1] = "-" THEN (Tail(s) # <<>> /\ DigitsAndDots(Tail(s), 0, FALSE))
    ELSE DigitsAndDots(s, 0, FALSE)

infer_value_type(raw) ==
    LET value == Strip(raw)
    IN  IF StartsWith(value, "[") /\ EndsWith(value, "]") THEN "array"
        ELSE IF StartsWith(value, "{") /\ EndsWith(value, "}") THEN "object"
        ELSE IF value = <<"t", "r", "u", "e">> \/ value = <<"f", "a", "l", "s", "e">> THEN "boolean"
        ELSE IF is_number(value) THEN "number"
        ELSE "string"

\* the scanners' bracket counter
Level(lvl, c) ==
    IF c \in {"[", "{"} THEN lvl + 1 ELSE IF c \in {"]", "}"} THEN lvl - 1 ELSE lvl

\* parse_array_elements (lines 292-335): the loop over the characters, then the tail
RECURSIVE ArrayScan(_, _, _, _, _, _)
ArrayScan(s, elements, current, bracket_level, in_quotes, escape) ==
    IF s = <<>>
    THEN IF current # <<>> /\ Strip(current) # <<>> THEN Append(elements, Strip(current))
         ELSE elements
    ELSE LET c == Head(s)
             r == Tail(s)
         IN  IF escape THEN ArrayScan(r, elements, Append(current, c), bracket_level, in_quotes, FALSE)
             ELSE IF c = "\\" THEN ArrayScan(r, elements, Append(current, c), bracket_level, in_quotes, TRUE)
             ELSE IF c = "\"" THEN ArrayScan(r, elements, Append(current, c), bracket_level, ~in_quotes, FALSE)
             ELSE IF in_quotes THEN ArrayScan(r, elements, Append(current, c), bracket_level, in_quotes, FALSE)
             ELSE IF c = "," /\ Level(bracket_level, c) = 0
                  THEN ArrayScan(r, Append(elements, Strip(current)), <<>>, bracket_level, in_quotes, FALSE)
                  ELSE ArrayScan(r, elements, Append(current, c), Level(bracket_level, c), in_quotes, FALSE)

parse_array_elements(s) == ArrayScan(s, <<>>, <<>>, 0, FALSE, FALSE)

\* parse_object_members, first loop (lines 346-380): an empty member is dropped
RECURSIVE MemberScan(_, _, _, _, _, _)
MemberScan(s, members, current, bracket_level, in_quotes, escape) ==
    IF s = <<>>
    THEN IF current # <<>> /\ Strip(current) # <<>> THEN Append(members, Strip(current))
         ELSE members
    ELSE LET c == Head(s)
             r == Tail(s)
         IN  IF escape THEN MemberScan(r, members, Append(current, c), bracket_level, in_quotes, FALSE)
             ELSE IF c = "\\" THEN MemberScan(r, members, Append(current, c), bracket_level, in_quotes, TRUE)
             ELSE IF c = "\"" THEN MemberScan(r, members, Append(current, c), bracket_level, ~in_quotes, FALSE)
             ELSE IF in_quotes THEN MemberScan(r, members, Append(current, c), bracket_level, in_quotes, FALSE)
             ELSE IF c = "," /\ Level(bracket_level, c) = 0
                  THEN MemberScan(r, IF Strip(current) # <<>> THEN Append(members, Strip(current))
                                     ELSE members,
                                  <<>>, bracket_level, in_quotes, FALSE)
                  ELSE MemberScan(r, members, Append(current, c), Level(bracket_level, c), in_quotes, FALSE)

\* second loop (lines 385-405): the index of the first top-level colon, 0 when none
RECURSIVE ColonIndex(_, _, _, _, _)
ColonIndex(member, i, bracket_level, in_quotes, escape) ==
    IF i > Len(member) THEN 0
    ELSE LET c == member[i]
         IN  IF escape THEN ColonIndex(member, i + 1, bracket_level, in_quotes, FALSE)
             ELSE IF c = "\\" THEN ColonIndex(member, i + 1, bracket_level, in_quotes, TRUE)
             ELSE IF c = "\"" THEN ColonIndex(member, i + 1, bracket_level, ~in_quotes, FALSE)
             ELSE IF in_quotes THEN ColonIndex(member, i + 1, bracket_level, in_quotes, FALSE)
             ELSE IF c = ":" /\ Level(bracket_level, c) = 0 THEN i
             ELSE ColonIndex(member, i + 1, Level(bracket_level, c), in_quotes, FALSE)

\* lines 407-415: (key, value_part) of one member
SplitMember(member) ==
    LET colon_index == ColonIndex(member, 1, 0, FALSE, FALSE)
    IN  IF colon_index # 0
        THEN [key |-> Strip(SubSeq(member, 1, colon_index - 1)),
              val |-> Strip(SubSeq(member, colon_index + 1, Len(member)))]
        ELSE [key |-> Strip(member), val |-> <<>>]

parse_object_members(s) ==
    LET members == MemberScan(s, <<>>, <<>>, 0, FALSE, FALSE)
    IN  [i \in 1..Len(members) |-> SplitMember(members[i])]

\* the characters the string and key loops drop (lines 446-450, 484-488)
Dropped(c) == c \in {"\"", "\\", "\n", "\r", "(", ")"}

DropChars(s) == SelectSeq(s, LAMBDA c : ~Dropped(c))

\* f'"{content}"'
Quoted(s) == <<"\"">> \o s \o <<"\"">>

\* value[1:-1] when the value carries wrapping quotes (lines 439-442, 474-477)
Unquoted(s) == IF StartsWith(s, "\"") /\ EndsWith(s, "\"") THEN Inner(s) ELSE s

\* rand_str() / rand_num() of counter_factual_utils, one representative text each
rand_str == {<<"\"", "c", "f", "\"">>}
rand_num == {<<"9", "e", "9">>}

\* string.ascii_letters, two representatives
ascii_letters == {"a", "Z"}

\* str.lstrip("0")
RECURSIVE LStripZeros(_)
LStripZeros(s) == IF s # <<>> /\ Head(s) = "0" THEN LStripZeros(Tail(s)) ELSE s

\* index of the first "." of s, 0 when none
DotIndex(s) == IF "." \in Range(s) THEN FirstIndex(s, ".") ELSE 0

\* lines 498-524: the number branch without the counterfactual; a number holds only
\* digits, '.', '-' and surrounding whitespace, so the octal rewrite of lines 504-506
\* is never entered
NormalizeNumber(value) ==
    LET sign    == IF StartsWith(value, "-") THEN <<"-">> ELSE <<>>
        num_str == IF StartsWith(value, "-") THEN Tail(value) ELSE value
        d       == DotIndex(num_str)
    IN  IF d # 0
        THEN LET int_part  == LStripZeros(SubSeq(num_str, 1, d - 1))
                 frac_part == SubSeq(num_str, d + 1, Len(num_str))
             IN  sign \o (IF int_part = <<>> THEN <<"0">> ELSE int_part) \o <<".">> \o frac_part
        ELSE sign \o (IF LStripZeros(num_str) = <<>> THEN <<"0">> ELSE LStripZeros(num_str))

\* lines 473-489: the normalized keys, one per choice of the random letter
NormalizeKey(key) ==
    LET key_content == Unquoted(key)
    IN  IF key_content # <<>> /\ ~IsAlpha(key_content[1])
        THEN {Quoted(DropChars(<<l>> \o key_content)) : l \in ascii_letters}
        ELSE {Quoted(DropChars(key_content))}

\* ", ".join(parts)
RECURSIVE JoinComma(_)
JoinComma(parts) ==
    IF parts = <<>> THEN <<>>
    ELSE IF Len(parts) = 1 THEN parts[1]
    ELSE parts[1] \o <<",", " ">> \o JoinComma(Tail(parts))

\* an outcome of one call: the text returned, and whether a counterfactual substitution
\* fired in that call or a call under it
Result(text, cf) == [text |-> text, cf |-> cf]

\* normalize_generated_value(value): every outcome the random draws allow
RECURSIVE normalize_generated_value(_)
RECURSIVE NormalizeElements(_)
RECURSIVE NormalizeMembers(_)

\* line 461: the outcomes of normalizing every element, in order
NormalizeElements(elements) ==
    IF elements = <<>> THEN {Result(<<>>, FALSE)}
    ELSE {Result(<<h.text>> \o t.text, h.cf \/ t.cf) :
            h \in normalize_generated_value(Head(elements)),
            t \in NormalizeElements(Tail(elements))}

\* lines 472-493: the outcomes of normalizing every (key, value) pair, in order
NormalizeMembers(members) ==
    IF members = <<>> THEN {Result(<<>>, FALSE)}
    ELSE {Result(<<k \o <<":", " ">> \o v.text>> \o t.text, v.cf \/ t.cf) :
            k \in NormalizeKey(Head(members).key),
            v \in normalize_generated_value(Head(members).val),
            t \in NormalizeMembers(Tail(members))}

normalize_generated_value(value) ==
    LET inferred_type == infer_value_type(value)
    IN  CASE inferred_type = "string" ->
               {Result(r, TRUE) : r \in rand_str}
               \cup {Result(Quoted(DropChars(Unquoted(value))), FALSE)}
          [] inferred_type = "array" ->
               LET content == Strip(Inner(value))
               IN  IF content = <<>> THEN {Result(<<"[", "]">>, FALSE)}
                   ELSE {Result(<<"[">> \o JoinComma(e.text) \o <<"]">>, e.cf) :
                           e \in NormalizeElements(parse_array_elements(content))}
          [] inferred_type = "object" ->
               LET content == Strip(Inner(value))
               IN  IF content = <<>> THEN {Result(<<"{", "}">>, FALSE)}
                   ELSE {Result(<<"{">> \o JoinComma(m.text) \o <<"}">>, m.cf) :
                           m \in NormalizeMembers(parse_object_members(content))}
          [] inferred_type = "number" ->
               {Result(r, TRUE) : r \in rand_num} \cup {Result(NormalizeNumber(value), FALSE)}
          [] OTHER -> {Result(value, FALSE)}

\* the raw values: texts of up to MaxValueLen pieces
Pieces ==
    { <<"0">>, <<"7">>, <<"a">>, <<" ">>, <<"\"">>, <<"[">>, <<"]">>, <<"{">>, <<"}">>,
      <<",">>, <<":">>, <<"-">>, <<".">>, <<"\\">>, <<"(">>, <<"t", "r", "u", "e">> }

MaxValueLen == 4

\* a raw value is put together piece by piece (nv_out2 counts the pieces meanwhile)
NvAppend ==
    /\ nv_pc \in {"idle", "raw"}
    /\ Len(nv_out2) < MaxValueLen
    /\ \E piece \in Pieces : nv_in' = nv_in \o piece
    /\ nv_out2' = Append(nv_out2, "+")
    /\ nv_pc' = "raw"
    /\ UNCHANGED <<nv_out, genVars, poolVars, exVars, svVars, ldVars, rwVars, mnVars>>

\* the first call on the raw value
NvNormalize ==
    /\ nv_pc \in {"idle", "raw"}
    /\ \E r \in normalize_generated_value(nv_in) :
         /\ nv_out' = r.text
         /\ nv_pc' = IF r.cf THEN "once_cf" ELSE "once"
    /\ nv_out2' = <<>>
    /\ UNCHANGED <<nv_in, genVars, poolVars, exVars, svVars, ldVars, rwVars, mnVars>>

\* the second call, on the first call's result
NvRenormalize ==
    /\ nv_pc \in {"once", "once_cf"}
    /\ \E r \in normalize_generated_value(nv_out) :
         /\ nv_out2' = r.text
         /\ nv_pc' = IF r.cf \/ nv_pc = "once_cf" THEN "twice_cf" ELSE "twice"
    /\ UNCHANGED <<nv_in, nv_out, genVars, poolVars, exVars, svVars, ldVars, rwVars, mnVars>>

NvNext == NvAppend \/ NvNormalize \/ NvRenormalize

NormSpec == Init /\ [][NvNext]_vars

-----------------------------------------------------------------------------
(* solve_for_other_symbol called on its own: symbolic_execution_utils.py:193-296 *)

\* the constraint dictionaries of the calls
ConstraintAnd     == <<"(", "and", " ", "(", ">=", " ", "x", " ", "0", ")", " ",
                       "(", "<", " ", "x", " ", "y", ")", ")">>
ConstraintLess    == <<"(", "<", " ", "x", " ", "y", ")">>
ConstraintNot     == <<"(", "=", " ", "y", " ", "(", "not", " ", "x", ")", ")">>
ConstraintEq      == <<"(", "=", " ", "x", " ", "y", ")">>
ConstraintNeq     == <<"(", "!=", " ", "x", " ", "y", ")">>
ConstraintOr      == <<"(", "or", " ", "(", "=", " ", "x", " ", "y", ")", " ",
                       "(", "<", " ", "x", " ", "y", ")", ")">>
ConstraintImplies == <<"(", "=>", " ", "x", " ", "y", ")">>
ConstraintMember  == <<"(", "contains", " ", "y", " ", "x", ")">>
ConstraintSubset  == <<"(", "subset", " ", "y", " ", "x", ")">>
ConstraintUnsat   == <<"(", "and", " ", "(", "<", " ", "x", " ", "y", ")", " ",
                       "(", "<", " ", "y", " ", "x", ")", ")">>
ConstraintNotAnd  == <<"(", "not", " ", "(", "and", " ", "(", "<", " ", "x", " ", "y", ")", " ",
                       "(", "!=", " ", "x", " ", "y", ")", ")", ")">>
ConstraintOrAnd   == <<"(", "or", " ", "(", "and", " ", "(", "<", " ", "x", " ", "y", ")", " ",
                       "(", "<", " ", "y", " ", "x", ")", ")", " ",
                       "(", "=", " ", "x", " ", "y", ")", ")">>
ConstraintChain   == <<"(", "and", " ", "(", "<", " ", "x", " ", "y", ")", " ",
                       "(", "<", " ", "y", " ", "z", ")", ")">>
ConstraintOpen    == <<"(", "<", " ", "x", " ", "y">>
ConstraintUnknown == <<"(", "between", " ", "x", " ", "y", ")">>
ConstraintAssert  == <<"(", "assert", " ", "(", "=", " ", "x", " ", "true", ")", ")">>

ConstraintDict(constraint, ctype) == [constraint |-> constraint, type |-> ctype]

SolveEntries ==
    {ConstraintDict(ConstraintAnd, "number"), ConstraintDict(ConstraintLess, "number"),
     ConstraintDict(ConstraintOr, "number"), ConstraintDict(ConstraintUnsat, "number"),
     ConstraintDict(ConstraintChain, "number"), ConstraintDict(ConstraintOpen, "number"),
     ConstraintDict(ConstraintUnknown, "number"), ConstraintDict(ConstraintEq, "number"),
     ConstraintDict(ConstraintNot, "boolean"), ConstraintDict(ConstraintImplies, "boolean"),
     ConstraintDict(ConstraintAssert, "boolean"), ConstraintDict(ConstraintEq, "boolean"),
     ConstraintDict(ConstraintEq, "string"), ConstraintDict(ConstraintNeq, "string"),
     ConstraintDict(ConstraintMember, "array"), ConstraintDict(ConstraintSubset, "array"),
     ConstraintDict(ConstraintNotAnd, "number"), ConstraintDict(ConstraintOrAnd, "number"),
     ConstraintDict(<<>>, "number")}

\* the known symbol: one of the constraint, or one it does not mention
KnownSymbols == {"x", "w"}

\* the known value: a parameter text as the Code Generator passes it, or a Python
\* number or bool as the module's own examples pass it
KnownValues(ctype) ==
    CASE ctype = "number"  -> {PyStr("5"), PyStr("0"), PyStr("lit"), PyInt(5)}
      [] ctype = "boolean" -> {PyStr("true"), PyStr("false"), PyStr("lit"), PyBool(TRUE), PyBool(FALSE)}
      [] ctype = "array"   -> {PyStr("lit")}
      [] OTHER             -> {PyStr("lit"), PyStr("5")}

SvCall ==
    /\ sv_pc = "idle"
    /\ \E d \in SolveEntries, k \in KnownSymbols :
       \E v \in KnownValues(d.type) :
          sv_in' = [constraint_dict |-> d, known_symbol |-> k, known_value |-> v]
    /\ sv_pc' = "called"
    /\ UNCHANGED <<sv_out, genVars, poolVars, exVars, nvVars, ldVars, rwVars, mnVars>>

SvSolve ==
    /\ sv_pc = "called"
    /\ \E r \in solve_for_other_symbol(sv_in.constraint_dict, sv_in.known_symbol,
                                        sv_in.known_value) :
         /\ sv_out' = r
         /\ sv_pc' = IF r.t = "exception" THEN "raised" ELSE "returned"
    /\ UNCHANGED <<sv_in, genVars, poolVars, exVars, nvVars, ldVars, rwVars, mnVars>>

SvNext == SvCall \/ SvSolve

SolveSpec == Init /\ [][SvNext]_vars

-----------------------------------------------------------------------------
(* Construction over one API directory: parameterGenerator.py:9-52,          *)
(* apiGenerator.py:11-48, objectGenerator.py:37-56, codeGenerator.py:55-81   *)

MaxFiles == 3

\* the files of a parameter directory, by what they hold: a list of rules, a list with
\* a malformed rule among the rules, text that is not JSON, a file without the .json
\* extension
FileKinds == {"rules", "mixed", "invalid", "txt"}

\* API_INFO.json: present with API_Name, absent, or without API_Name
ApiInfoKinds == {"ok", "missing", "noname"}

LoadedApi == "api"

\* what json.load returns for a file that parses
FileData(kind) ==
    CASE kind = "rules" -> << <<"start", "a">>, <<"start", "b">> >>
      [] kind = "mixed" -> << <<"value", "c">>, <<"junk">> >>
      [] OTHER          -> <<>>

\* lines 41-52: the rules of data that are two-element lists, in order
RECURSIVE ValidRules(_)
ValidRules(data) ==
    IF data = <<>> THEN <<>>
    ELSE IF Len(Head(data)) # 2 THEN ValidRules(Tail(data))
    ELSE <<Head(data)>> \o ValidRules(Tail(data))

\* _build_grammar, line 30: only names ending in .json are parsed
IsJsonName(kind) == kind # "txt"

\* _parse_grammar_file: json.load's failure is printed (lines 35-38) and the loop of
\* line 40 then reads data, which was never bound
_parse_grammar_file(kind) ==
    IF kind = "invalid" THEN [exc |-> "UnboundLocalError", rules |-> <<>>]
    ELSE [exc |-> "", rules |-> ValidRules(FileData(kind))]

\* the grammar a directory holds in its well-formed files
RECURSIVE WellFormedRules(_)
WellFormedRules(files) ==
    IF files = <<>> THEN <<>>
    ELSE (IF Head(files) \in {"rules", "mixed"} THEN ValidRules(FileData(Head(files))) ELSE <<>>)
         \o WellFormedRules(Tail(files))

Directories ==
    {[api_info |-> a, files |-> f] :
        a \in ApiInfoKinds, f \in UNION {[1..n -> FileKinds] : n \in 0..MaxFiles}}

LdStep(pc2, idx2, grammar2, start2, exc2, apis2) ==
    /\ ld_pc' = pc2
    /\ ld_idx' = idx2
    /\ ld_grammar' = grammar2
    /\ ld_start' = start2
    /\ ld_exc' = exc2
    /\ ld_apis' = apis2
    /\ UNCHANGED <<ld_dir, genVars, poolVars, exVars, nvVars, svVars, rwVars, mnVars>>

\* CodeGenerator(folder, config) reaches generator_cls(item_path) for the directory
LdConstruct ==
    /\ ld_pc = "idle"
    /\ \E d \in Directories : ld_dir' = d
    /\ ld_pc' = "api_info"
    /\ UNCHANGED <<ld_idx, ld_grammar, ld_start, ld_exc, ld_apis,
                   genVars, poolVars, exVars, nvVars, svVars, rwVars, mnVars>>

\* APIGenerator.__init__, lines 17-25
LdApiInfo ==
    /\ ld_pc = "api_info"
    /\ IF ld_dir.api_info = "missing"
       THEN LdStep("handler", ld_idx, ld_grammar, ld_start, "FileNotFoundError", ld_apis)
       ELSE IF ld_dir.api_info = "noname"
       THEN LdStep("handler", ld_idx, ld_grammar, ld_start, "ValueError", ld_apis)
       ELSE LdStep("params", 1, ld_grammar, ld_start, ld_exc, ld_apis)

\* _build_grammar, one file of the directory; an exception leaves
\* ParameterGenerator.__init__ and APIGenerator.__init__, neither of which has a handler
LdParseFile ==
    /\ ld_pc = "params"
    /\ ld_idx <= Len(ld_dir.files)
    /\ LET kind == ld_dir.files[ld_idx]
           res  == _parse_grammar_file(kind)
       IN  IF ~IsJsonName(kind)
           THEN LdStep("params", ld_idx + 1, ld_grammar, ld_start, ld_exc, ld_apis)
           ELSE IF res.exc # ""
           THEN LdStep("handler", ld_idx, ld_grammar, ld_start, res.exc, ld_apis)
           ELSE LdStep("params", ld_idx + 1, ld_grammar \o res.rules,
                       IF ld_start = "" /\ res.rules # <<>> THEN res.rules[1][1] ELSE ld_start,
                       ld_exc, ld_apis)

\* _load_apis, lines 44-52: the generator is stored in its table
LdRegister ==
    /\ ld_pc = "params"
    /\ ld_idx > Len(ld_dir.files)
    /\ LdStep("constructed", ld_idx, ld_grammar, ld_start, ld_exc, ld_apis \cup {LoadedApi})

\* _load_apis, lines 54-56: FileNotFoundError and ValueError are printed and the
\* directory skipped; anything else leaves ObjectGenerator.__init__,
\* _init_object_generators and CodeGenerator.__init__
LdHandler ==
    /\ ld_pc = "handler"
    /\ IF ld_exc \in {"FileNotFoundError", "ValueError"}
       THEN LdStep("constructed", ld_idx, <<>>, "", "", ld_apis)
       ELSE LdStep("raised", ld_idx, ld_grammar, ld_start, ld_exc, ld_apis)

LdNext == LdConstruct \/ LdApiInfo \/ LdParseFile \/ LdRegister \/ LdHandler

LoadSpec == Init /\ [][LdNext]_vars

-----------------------------------------------------------------------------
(* One API generator asked for a raw call record: apiGenerator.py:95-144,    *)
(* 169-197. The return type is a sequence of pieces of text, so that          *)
(* remove_special_characters has characters to remove.                        *)

\* generate_random_string(5): k = 5 characters of ascii_letters + digits (scaled down
\* to two characters of the alphabet)
RandLen  == 5
Alphanum == {"a", "9"}

\* the pattern of remove_special_characters (generator_utils.py:24)
SpecialCharacters == {",", ".", "[", "]", "{", "}", "(", ")", "'", "\"", "<", ">", " "}

remove_special_characters(text) ==
    SelectSeq(text, LAMBDA ch : ch \notin SpecialCharacters)

\* Return_Type of API_INFO.json: absent (<<>>), the primitive and void names, object
\* names, and names with characters the normalization removes
ReturnTypes ==
    {<<>>, <<"unknown">>, <<"Boolean">>, <<"String">>, <<"Integer">>, <<"Number">>,
     <<"void">>, <<"Field">>, <<"Doc">>, <<"Array", "<", "Span", ">">>,
     <<"Doc", " ", "object">>}

\* the parameter directories of the generator
ParamNameSets == {{}, {"cName"}, {"cName", "cValue"}}

\* lines 96-102 / 172-178: the return-capture name
return_value(api_type, return_type, rand) ==
    IF /\ return_type # <<>>
       /\ Join(return_type) \notin (IF api_type = "method" THEN MethodTrivial ELSE PropertyTrivial)
    THEN Join(remove_special_characters(return_type)) \o "_" \o Join(rand)
    ELSE ""

RwStep(pc2, gen2, rand2, out2) ==
    /\ rw_pc' = pc2
    /\ rw_gen' = gen2
    /\ rw_rand' = rand2
    /\ rw_out' = out2
    /\ UNCHANGED <<genVars, poolVars, exVars, nvVars, svVars, ldVars, mnVars>>

\* a MethodGenerator or PropertyGenerator, as constructed from its directory
RwCall ==
    /\ rw_pc \in {"idle", "returned", "raised"}
    /\ \E t \in {"method", "property"}, r \in ReturnTypes, ps \in ParamNameSets :
         RwStep("called", [api_type |-> t, return_type |-> r, params |-> ps], <<>>, RwNoOut)

\* generate_api_call_raw: the header, the return-capture name, then the parameters; a
\* property generator with several parameter generators raises (lines 184-185)
RwGenerate ==
    /\ rw_pc = "called"
    /\ \E rand \in [1..RandLen -> Alphanum] :
         LET rv == return_value(rw_gen.api_type, rw_gen.return_type, rand)
             used == IF rv = "" THEN <<>> ELSE rand
         IN  IF rw_gen.api_type = "property" /\ Cardinality(rw_gen.params) > 1
             THEN RwStep("raised", rw_gen, used, RwNoOut)
             ELSE RwStep("returned", rw_gen, used,
                         [api_type |-> rw_gen.api_type, return_type |-> Join(rw_gen.return_type),
                          return_value |-> rv, params |-> rw_gen.params])

RwNext == RwCall \/ RwGenerate

RawSpec == Init /\ [][RwNext]_vars

-----------------------------------------------------------------------------
(* The reader monitor: monitor.py, BaseMonitor.startUp and what it calls     *)

\* timeOut arguments tried: 0 .. MaxTimeOut
MaxTimeOut == 5

\* range(10) of openPDF
OpenTries == 10

MonitorKinds == {"adobe", "foxit", "xchange"}

MnStep(pc2, status2, tries2, polls2, app2, alive2, expired2) ==
    /\ mn_pc' = pc2
    /\ mn_status' = status2
    /\ mn_tries' = tries2
    /\ mn_polls' = polls2
    /\ mn_app' = app2
    /\ mn_alive' = alive2
    /\ mn_expired' = expired2
    /\ UNCHANGED <<mn_kind, mn_timeOut, genVars, poolVars, exVars, nvVars, svVars, ldVars, rwVars>>

\* __init__ (lines 25-34) of one of the three monitor classes
MnConstruct ==
    /\ mn_pc \in {"idle", "end"}
    /\ \E k \in MonitorKinds, t \in 0..MaxTimeOut :
         /\ mn_kind' = k
         /\ mn_timeOut' = t
    /\ mn_pc' = "constructed"
    /\ mn_status' = "init"
    /\ mn_tries' = 0
    /\ mn_polls' = 0
    /\ mn_app' = FALSE
    /\ mn_alive' = FALSE
    /\ mn_expired' = FALSE
    /\ UNCHANGED <<genVars, poolVars, exVars, nvVars, svVars, ldVars, rwVars>>

\* openPDF, lines 75-79: the command is launched; the reader may or may not come up
MnPopen ==
    /\ mn_pc = "constructed"
    /\ \E up \in BOOLEAN :
         MnStep("open", mn_status, mn_tries, mn_polls, mn_app, up, mn_expired)

\* environment: the reader comes up late, or exits by itself
MnReaderStarts ==
    /\ mn_pc = "open" /\ ~mn_alive
    /\ MnStep(mn_pc, mn_status, mn_tries, mn_polls, mn_app, TRUE, mn_expired)

MnReaderExits ==
    /\ mn_pc \in {"open", "check", "close"} /\ mn_alive
    /\ MnStep(mn_pc, mn_status, mn_tries, mn_polls, mn_app, FALSE, mn_expired)

\* one iteration of the loop of openPDF (lines 81-84) with checkStart (lines 62-71):
\* a process found is connected to (status running) unless connect raises, which
\* startUp catches (status error); after OpenTries misses openPDF returns False
MnCheckStart ==
    /\ mn_pc = "open" /\ mn_tries < OpenTries
    /\ IF mn_alive
       THEN \/ MnStep("check", "running", mn_tries + 1, mn_polls, TRUE, mn_alive, mn_expired)
            \/ MnStep("finally", "error", mn_tries + 1, mn_polls, mn_app, mn_alive, mn_expired)
       ELSE MnStep(IF mn_tries + 1 = OpenTries THEN "close" ELSE "open", mn_status,
                   mn_tries + 1, mn_polls, mn_app, mn_alive, mn_expired)

\* checkHalt (lines 87-93): the status a reader that is no longer running gets
\* (XchangeMonitor overrides it, lines 355-361)
checkHalt(kind) == IF kind = "xchange" THEN "crash" ELSE "halt"

\* checkStatus(enter), lines 119-131: the status it leaves ("running" = untouched), or
\* "exception" when a call of checkCrash raises. With high CPU usage nothing is done;
\* else halt, crash, popup (handled, or the start window: finish), and with none of
\* them: stop on the second look, a second look after 2 s on the first
RECURSIVE checkStatus(_, _, _)
checkStatus(kind, alive, enter) ==
    {"running"}
    \cup (IF ~alive THEN {checkHalt(kind)}
          ELSE {"crash", "exception", "running", "finish"}
               \cup (IF enter = 1 THEN {"stop"}
                     ELSE checkStatus(kind, TRUE, 1) \cup checkStatus(kind, FALSE, 1)))

\* one iteration of the loop of checkMain (lines 138-143)
MnCheckStatus ==
    /\ mn_pc = "check" /\ mn_polls < mn_timeOut \div 2
    /\ \E r \in checkStatus(mn_kind, mn_alive, 0) :
         IF r = "exception"
         THEN MnStep("finally", "error", mn_tries, mn_polls + 1, mn_app, mn_alive, mn_expired)
         ELSE MnStep(IF r # "running" THEN "close" ELSE "check", r, mn_tries, mn_polls + 1,
                     mn_app, IF r \in {"halt", "crash"} THEN FALSE ELSE mn_alive, mn_expired)

\* checkMain, lines 145-147: the loop ran timeOut // 2 times without a break
MnCheckMainEnd ==
    /\ mn_pc = "check" /\ mn_polls = mn_timeOut \div 2
    /\ MnStep("close", "hang", mn_tries, mn_polls, mn_app, mn_alive, TRUE)

\* closeReader (lines 171-180) as startUp calls it: without a connected app the
\* attribute access raises; a running reader is killed, by pywinauto or, when that
\* raises, by psutil, whose exception is not caught there; startUp's handler records
\* error for either
MnCloseReader ==
    /\ mn_pc = "close"
    /\ IF ~mn_app
       THEN MnStep("finally", "error", mn_tries, mn_polls, mn_app, mn_alive, mn_expired)
       ELSE IF ~mn_alive
       THEN MnStep("finally", mn_status, mn_tries, mn_polls, mn_app, mn_alive, mn_expired)
       ELSE \/ MnStep("finally", mn_status, mn_tries, mn_polls, mn_app, FALSE, mn_expired)
            \/ \E a \in BOOLEAN :
                 MnStep("finally", "error", mn_tries, mn_polls, mn_app, a, mn_expired)

\* the finally clause of startUp (lines 190-192): clearDerived kills what is left,
\* savePDF copies the file unless the status is finish
MnFinally ==
    /\ mn_pc = "finally"
    /\ MnStep("end", mn_status, mn_tries, mn_polls, mn_app, FALSE, mn_expired)

MnNext ==
    \/ MnConstruct
    \/ MnPopen
    \/ MnReaderStarts
    \/ MnReaderExits
    \/ MnCheckStart
    \/ MnCheckStatus
    \/ MnCheckMainEnd
    \/ MnCloseReader
    \/ MnFinally

MonSpec == Init /\ [][MnNext]_vars

-----------------------------------------------------------------------------
(* Properties *)

\* the entries the loop appended after the preamble
Emitted == SubSeq(statements, Len(pre_sentences) + 1, Len(statements))

\* an entry that holds a try{...}catch(e){} statement
TryWrapped(st) == \E i \in DOMAIN st.segs : st.segs[i].guard

\* an entry that is not empty and has no code outside a guard
WhollyGuarded(st) == st.segs # <<>> /\ \A i \in DOMAIN st.segs : st.segs[i].guard

\* C1: when generation returns, for every target count N and every combination of the
\* flags, the statement list holds at least N try-wrapped statements after the preamble
C1_AtLeastN ==
    pc = "done" =>
        Cardinality({i \in DOMAIN Emitted : TryWrapped(Emitted[i])}) >= count

\* C2: generation of one test case returns and does not raise; the part a finite run
\* decides: the generator never leaves a pass by an exception
C2_DoesNotRaise == pc # "raised"

\* C3: on return the loop has emitted exactly N or N+1 entries after the preamble, and
\* N+1 only when the last iteration emitted a pair with one slot remaining
C3_ExactOrOneOver ==
    pc = "done" =>
        /\ Len(Emitted) \in {count, count + 1}
        /\ Len(Emitted) = count + 1 => (last_iter = "pair" /\ generated_count = count + 1)

C3_Witness == pc = "done" /\ count >= 1 /\ Len(Emitted) = count + 1 /\ last_iter = "pair"

\* C4: every entry of the statement list, preamble included, is wholly enclosed in a
\* try{...}catch(e){} guard: none is empty and none has code outside a guard
C4_EveryEntryGuarded ==
    \A i \in DOMAIN statements : WhollyGuarded(statements[i])

\* a step in which the first or the second raw call failed: the iteration ends with the
\* failure recorded and its locals dropped
FailureStep ==
    /\ pc \in {"loop", "first", "second"}
    /\ last_iter' \in {"fail_first", "fail_second"}
    /\ first_raw_call' = NoneCall

C5_Step ==
    /\ FailureStep => /\ statements' = statements
                      /\ generated_count' = generated_count
                      /\ pc' = "loop"
    /\ pc \in {"noflag", "loop", "first", "second"} => IsPrefix(statements, statements')

\* C5: an iteration whose first or second raw call fails appends nothing, leaves the
\* emitted count unchanged and returns to the loop head; no iteration modifies, reorders
\* or removes an entry already in the list
C5_FailureLeavesListAlone == [][C5_Step]_vars

C5_Witness ==
    /\ pc = "loop"
    /\ last_iter = "fail_second"
    /\ Len(Emitted) >= 1
    /\ generated_count = Len(Emitted)

\* C6: at the start of every pass every pool consists of exactly its permanent
\* instances, each with 5 occurrences, the temporary set is empty, and the permanent
\* tier still holds everything construction seeded
C6_PassStartsClean ==
    last_iter \in {"start", "restart"} =>
        /\ \A o \in Objects :
              /\ Range(instances[o]) = Range(permenent_instances[o])
              /\ \A x \in Range(permenent_instances[o]) :
                    Occurrences(instances[o], x) = PermWeight
              /\ IsPrefix(InitPool(o).perm, permenent_instances[o])
        /\ tmp_object_list = {}

C6_Witness == last_iter = "restart" /\ pc \in {"noflag", "loop"}

\* C7: after add_permenent_instance(x) returns, the pool holds exactly 5 occurrences of
\* x, whatever pool calls came before
C7_ExactlyFiveAfterAddPermanent ==
    \A x \in PoolNames :
        last_iter = "add_permenent_instance(" \o x \o ")" =>
            Occurrences(instances[PoolObject], x) = PermWeight

\* C8: after any sequence of pool calls the permanent list holds no name twice, and a
\* name that is not permanent occurs at most once in the pool
C8_NoNameTwiceInATier ==
    /\ \A x \in Range(permenent_instances[PoolObject]) :
          Occurrences(permenent_instances[PoolObject], x) = 1
    /\ \A x \in Range(instances[PoolObject]) \ Range(permenent_instances[PoolObject]) :
          Occurrences(instances[PoolObject], x) = 1

C8_Witness ==
    /\ last_iter = "add_instance(Field_a) ignored"
    /\ "Field_a" \notin Range(permenent_instances[PoolObject])
    /\ "my_field1" \in Range(permenent_instances[PoolObject])

\* C9: for every grammar and start symbol the expansion never raises and its recursion
\* depth stays at most max_depth + 1
C9_DepthBoundedNeverRaises ==
    /\ ex_status # "RecursionError"
    /\ ex_peak <= ex_max_depth + 1

\* C10: when no counterfactual substitution fires, normalizing the result of a
\* normalization returns it character for character
C10_Idempotent == nv_pc = "twice" => nv_out2 = nv_out

\* a wiring attempt in which solving failed: the solver raised (no solution, a
\* malformed constraint, a known value that cannot be coerced)
SolveFailed(rec) == ~rec.sat /\ rec.status # "KeyError"

C11_Step ==
    (pc = "second" /\ \E i \in DOMAIN wiring' : SolveFailed(wiring'[i])) =>
        /\ pc' # "raised"
        /\ Len(statements') = Len(statements) + 2
        /\ IsPrefix(statements, statements')
        /\ generated_count' = generated_count + 2
        /\ \A i \in DOMAIN wiring' :
              SolveFailed(wiring'[i]) => wiring'[i].after = wiring'[i].before

C12_SatisfiableIsWired ==
    \A i \in DOMAIN wiring :
        wiring[i].sat => wiring[i].status = "wired"

\* the symbols a relation entry declares for the parameters of the two calls
RelationSymbols == {"x", "y", "z"}

\* C13: when the constraint mentions exactly one symbol besides the known symbol, solve
\* returns that symbol's witness directly, not a name-to-value mapping; for
\* (and (>= x 0) (< x y)), type number, known x = 5 it returns a value greater than 5
C13_SingleUnknownReturnedDirectly ==
    (/\ sv_pc = "returned"
     /\ Cardinality((Range(sv_in.constraint_dict.constraint) \cap RelationSymbols)
                    \ {sv_in.known_symbol}) = 1) =>
        /\ sv_out.t # "dict"
        /\ (/\ sv_in.constraint_dict = ConstraintDict(ConstraintAnd, "number")
            /\ sv_in.known_symbol = "x"
            /\ sv_in.known_value \in {PyInt(5), PyStr("5")}) =>
               (sv_out.t \in {"int", "float"} /\ sv_out.n > 5)

\* C14: in the no-flag mode, after a statement is emitted for an API whose return type
\* names a known object, the statement's return-capture variable is a live instance of
\* that object
C14_NoFlagRegistersReturn ==
    (~weak_relation /\ ~symbolic_relation /\ pc \in {"noflag", "done"}) =>
        \A i \in DOMAIN Emitted :
            (Emitted[i].api \in ApiKeySet /\ ApiDir(Emitted[i].api).ret \in Objects) =>
                /\ Emitted[i].rv # ""
                /\ Emitted[i].rv \in Range(instances[ApiDir(Emitted[i].api).ret])

\* C15: in every generation mode no emitted top-level call statement carries an
\* unresolved <<BUILTINOBJ>> or <<SCRIPTS>> placeholder as a parameter value
C15_NoUnresolvedPlaceholder ==
    \A i \in DOMAIN statements : ~statements[i].ph

\* C16: in every generation mode the API key chosen by random selection is never a
\* blocklisted Object.api key
C16_SelectedNotBlocklisted == selected \notin blocklist

\* a property API registered with more than one parameter generator
MultiParameterProperty(k) ==
    /\ k \in ApiKeySet
    /\ ApiDir(k).type = "property"
    /\ Cardinality(DOMAIN ApiDir(k).gens) > 1

\* C18: a property API with more than one parameter generator is skipped from the
\* catalog: it is never selected for a call, and no run aborts because of it
C18_MultiParameterPropertySkipped == ~MultiParameterProperty(selected)

\* C20: every statement rendered from a method record with a non-empty return value
\* declares var <return_value>; exactly once and holds the call in one guard
C20_MethodReturnDeclaredOnce ==
    \A i \in DOMAIN statements :
        (/\ statements[i].kind = "call"
         /\ statements[i].api \in ApiKeySet
         /\ ApiDir(statements[i].api).type = "method"
         /\ statements[i].rv # "") =>
            /\ statements[i].decl
            /\ Cardinality({j \in DOMAIN statements[i].segs : statements[i].segs[j].guard}) = 1

C17_Step ==
    (pc = "pool" /\ last_iter' \in CallOps) =>
        /\ poolVars' = poolVars
        /\ (\/ instances[PoolObject] = <<>>
            \/ (selected' # NoneKey /\ selected'[2] \notin api_list(PoolObject))) =>
               (first_raw_call' = NoneCall /\ first_statement' = NoneStmt)

\* C17: get_specific_api_call_raw, generate_api_call_raw and generate_api_call_statement
\* return None, and do not raise, when the object's instance pool is empty or the API
\* name is in none of the generator tables, and leave the instance pool unchanged
C17_FailureIsNoneAndPoolKept == [][C17_Step]_vars

C17_Witness ==
    /\ last_iter = "get_specific_api_call_raw"
    /\ selected = <<PoolObject, "value">>
    /\ instances[PoolObject] = <<>>
    /\ permenent_instances[PoolObject] = <<>>
    /\ first_raw_call = NoneCall

\* C19: a grammar file whose content is not valid JSON is logged and skipped at load
\* time: construction completes without raising and the rules of every other,
\* well-formed file are loaded
C19_InvalidJsonSkipped ==
    (/\ ld_pc \in {"constructed", "raised"}
     /\ ld_dir.api_info = "ok"
     /\ "invalid" \in Range(ld_dir.files)) =>
        /\ ld_pc = "constructed"
        /\ ld_apis = {LoadedApi}
        /\ ld_grammar = WellFormedRules(ld_dir.files)

\* the API keys of the last two entries of a statement list
LastTwoApis(sts) == <<sts[Len(sts) - 1].api, sts[Len(sts)].api>>

C21_Step ==
    (pc = "second" /\ last_iter' = "pair" /\ wiring' # <<>>) =>
        LET cur   == CurrentKey(first_raw_call)
            sec   == second_api_key
            infos == LookupSymbolic(cur, sec)
            flagged == {i \in DOMAIN infos : infos[i].sequence}
        IN  /\ \A i \in flagged :
                 LastTwoApis(statements') =
                    <<infos[i].api1, IF infos[i].api1 = cur THEN sec ELSE cur>>
            /\ flagged = {} => LastTwoApis(statements') = <<cur, sec>>

\* C21: when a found symbolic relation entry declares a fixed call order, the statement
\* of the API the entry names first is appended immediately before the statement of
\* the other API, whichever was generated first; without the flag the first-generated
\* call's statement precedes the second's
C21_DeclaredOrderHonoured == [][C21_Step]_vars

\* the standard logical meaning of a constraint under an assignment env of its
\* symbols: numerals and true / false are constants, and / or / not / => are the
\* connectives over their operands wherever they occur
RECURSIVE Holds(_, _, _)
Holds(expr, env, ctype) ==
    LET Val(e) == IF ~IsLeaf(e) THEN Holds(e, env, ctype)
                  ELSE IF e.op \in DOMAIN env THEN env[e.op]
                  ELSE IF Sort(ctype) = "number" /\ e.op \in DOMAIN IntOf THEN IntOf[e.op]
                  ELSE IF Sort(ctype) = "boolean" THEN e.op = "true"
                  ELSE e.op
    IN  IF IsLeaf(expr) THEN Val(expr)
        ELSE CASE expr.op = "assert" -> Holds(expr.kids[1], env, ctype)
               [] expr.op = "and" -> \A i \in DOMAIN expr.kids : Holds(expr.kids[i], env, ctype)
               [] expr.op = "or"  -> \E i \in DOMAIN expr.kids : Holds(expr.kids[i], env, ctype)
               [] expr.op = "not" -> ~Holds(expr.kids[1], env, ctype)
               [] expr.op = "=>"  -> (Holds(expr.kids[1], env, ctype) => Holds(expr.kids[2], env, ctype))
               [] expr.op = "="   -> Val(expr.kids[1]) = Val(expr.kids[2])
               [] expr.op = "!="  -> Val(expr.kids[1]) # Val(expr.kids[2])
               [] expr.op = ">"   -> Val(expr.kids[1]) > Val(expr.kids[2])
               [] expr.op = ">="  -> Val(expr.kids[1]) >= Val(expr.kids[2])
               [] expr.op = "<"   -> Val(expr.kids[1]) < Val(expr.kids[2])
               [] expr.op = "<="  -> Val(expr.kids[1]) <= Val(expr.kids[2])
               [] OTHER -> FALSE

\* the symbols of the call in flight, and what the call returned for a symbol
SvExpr    == parse_sexp(sv_in.constraint_dict.constraint)
SvType    == sv_in.constraint_dict.type
SvSymbols == collect_variables(SvExpr) \cap (RelationSymbols \cup {sv_in.known_symbol})
SvKnown   == KnownValue(SvType, sv_in.known_value)

SvReturnedFor(u) ==
    IF sv_out.t = "dict"
    THEN IF \E it \in sv_out.d : it[1] = u
         THEN (CHOOSE it \in sv_out.d : it[1] = u)[2] ELSE PyNone
    ELSE sv_out

PyValue(py, ctype) ==
    CASE Sort(ctype) = "number"  -> py.n
      [] Sort(ctype) = "boolean" -> py.n # 0
      [] OTHER                   -> py.s

\* the assignment the call's result stands for: the known value and the returned ones
SvEnv ==
    [u \in SvSymbols |->
        IF u = sv_in.known_symbol THEN SvKnown.v ELSE PyValue(SvReturnedFor(u), SvType)]

\* the call got as far as the satisfiability check
SvChecked ==
    /\ sv_in.constraint_dict.constraint # <<>>
    /\ ParseRaised(SvExpr) = ""
    /\ sv_in.known_symbol \in collect_variables(SvExpr)
    /\ SvKnown.ok
    /\ ~BuildRaises(SvExpr, collect_variables(SvExpr), SvType)

\* C22: whenever solve returns a value, that value together with the known value
\* satisfies the constraint under its standard logical meaning (and / or nested under
\* not, or, => included), and solve fails with the no-solution error only when no
\* satisfying value exists
C22_SolverAssertsTheConstraint ==
    /\ (/\ sv_pc = "returned"
        /\ \A u \in SvSymbols \ {sv_in.known_symbol} : SvReturnedFor(u).t # "None") =>
           Holds(SvExpr, SvEnv, SvType)
    /\ (sv_pc = "raised" /\ sv_out = PyExc("ValueError") /\ SvChecked) =>
           ~\E env \in [SvSymbols -> Domain(SvType, SvKnown.v)] :
                env[sv_in.known_symbol] = SvKnown.v /\ Holds(SvExpr, env, SvType)

\* C23: for both the method and the property builder, the raw record's return_value is
\* empty whenever the declared return type is absent or one of unknown, Boolean,
\* String, Integer, Number, void, and otherwise is <NormalizedReturnType>_<5
\* alphanumerics>
C23_ReturnValueByReturnType ==
    rw_pc = "returned" =>
        IF rw_gen.return_type = <<>>
           \/ Join(rw_gen.return_type) \in {"unknown", "Boolean", "String", "Integer", "Number", "void"}
        THEN rw_out.return_value = ""
        ELSE /\ Len(rw_rand) = 5
             /\ Range(rw_rand) \subseteq Alphanum
             /\ rw_out.return_value =
                   Join(remove_special_characters(rw_gen.return_type)) \o "_" \o Join(rw_rand)

\* C24: literal-brace escapes are restored once, after the full expansion: the result
\* of an expansion equals the result of expanding with the escapes kept opaque at
\* every recursion level and restoring them once at the end
C24_RestoredOnceAtTheEnd ==
    (ex_status = "returned" /\ ex_stack = <<>>) => ex_ret = RestoreBraces(ex_opaque)

\* the set handed to replace_statement_parameter at lines 258-259
LiveInstances == permenent_object_list \cup tmp_object_list

\* the parameters of the first call record that hold a live-instance expression, that
\* is, the ones replace_statement_parameter has substituted
Substituted(raw) == {p \in DOMAIN raw.params : raw.params[p] \in LiveInstances}

\* C25: whenever a <<BUILTINOBJ>> placeholder has been substituted in the first call of
\* an iteration, the substituted expression is one of the currently-live instance
\* expressions, and that set contains every permanent instance seeded into any object
\* generator's pool (the object roots as well as the document-derived names) together
\* with the temporary instances of the pass
C25_LiveSetHoldsEveryPermanentInstance ==
    (pc = "first" /\ IsCall(first_raw_call) /\ Substituted(first_raw_call) # {}) =>
        /\ tmp_object_list \subseteq LiveInstances
        /\ \A o \in Objects : Range(permenent_instances[o]) \subseteq LiveInstances

C26_Step ==
    ((weak_relation' \/ symbolic_relation') /\ pc' \in {"loop", "first", "second", "done", "raised"}) =>
        /\ generated_count' = Len(statements') - Len(pre_sentences)
        /\ pc \in {"loop", "first", "second"} =>
               LET appended == Len(statements') - Len(statements)
               IN  /\ appended \in {0, 1, 2}
                   /\ generated_count' = generated_count + appended

\* C26: throughout relation-aware generation with a flag set the emitted count equals
\* the number of entries appended to the statement list after the preamble; each step of
\* an iteration appends 0, 1 or 2 entries and increases the count by exactly the number
\* it appended
C26_CountIsEntriesAppended == [][C26_Step]_vars

C26_Witness ==
    /\ weak_relation \/ symbolic_relation
    /\ pc = "done"
    /\ last_iter = "pair"
    /\ generated_count = 3
    /\ Len(statements) = Len(pre_sentences) + generated_count

\* the variables the entries of the statement list introduce: return-capture variables
\* and hook objects
DeclaredNames ==
    ({statements[i].rv : i \in DOMAIN statements} \cup {statements[i].os : i \in DOMAIN statements})
        \ {""}

PermanentNames ==
    permenent_object_list \cup UNION {Range(permenent_instances[o]) : o \in Objects}

\* C27: at every iteration boundary of relation-aware generation every name in the
\* live-instance set is a permanent instance or a variable (return-capture variable or
\* hook object) introduced by an entry already in the statement list; an iteration that
\* fails after building an object hook leaves no hook-object name in the set
C27_LiveNamesAreDeclared ==
    ((weak_relation \/ symbolic_relation) /\ pc \in {"loop", "done"}) =>
        LiveInstances \subseteq PermanentNames \cup DeclaredNames

\* the instances of a pool that are not in its permanent tier
NonPermanent(o) == Range(instances[o]) \ Range(permenent_instances[o])

\* the emitted entries that capture x as the return value of an API returning type o
CapturedBy(x, o) ==
    {i \in DOMAIN Emitted :
        /\ Emitted[i].kind = "call"
        /\ Emitted[i].rv = x
        /\ ApiDir(Emitted[i].api).ret = o}

\* C28: during relation-aware generation every non-permanent instance in the pool of
\* object X is the return-capture variable of a statement already emitted in the current
\* pass whose declared return type is X, and X is never Doc: the Doc pool consists of
\* exactly its permanent instances
C28_PoolHoldsEmittedReturns ==
    ((weak_relation \/ symbolic_relation) /\ pc \in {"loop", "first", "second", "done", "raised"}) =>
        /\ \A o \in Objects : \A x \in NonPermanent(o) : CapturedBy(x, o) # {}
        /\ NonPermanent("Doc") = {}
        /\ Range(instances["Doc"]) = Range(permenent_instances["Doc"])

C28_Witness ==
    /\ weak_relation \/ symbolic_relation
    /\ pc \in {"loop", "done"}
    /\ NonPermanent("Field") # {}
    /\ \E i \in DOMAIN Emitted :
          /\ ApiDir(Emitted[i].api).ret = "Doc"
          /\ Emitted[i].rv # ""
          /\ Emitted[i].rv \in tmp_object_list

\* the parameter names generate_api_call_raw gives the record of API k
GeneratedNames(k) ==
    LET d == ApiDir(k)
    IN  IF d.empty \/ DOMAIN d.gens = {} THEN {}
        ELSE IF d.type = "property" THEN {k[2]}
        ELSE DOMAIN d.gens

\* C29: between the generation of a raw call record and its rendering, placeholder
\* substitution, object-hook wrapping and the symbolic override change only the values
\* of parameters already present: the first record keeps the names it was generated
\* with, an override never writes a parameter the second record did not have, and so no
\* pass is left by the rendering of an overridden record
C29_ParameterNamesUnchanged ==
    /\ (pc \in {"first", "second"} /\ IsCall(first_raw_call)) =>
            DOMAIN first_raw_call.params = GeneratedNames(CurrentKey(first_raw_call))
    /\ \A i \in DOMAIN wiring :
            wiring[i].status = "wired" => wiring[i].before # "absent"
    /\ pc = "raised" => \A i \in DOMAIN wiring : wiring[i].status # "wired"

\* C30: whenever startUp has finished its open / check / close sequence the recorded
\* status is one of halt, crash, stop, finish, hang, error and never init or running; a
\* reader that failed to start ends as error, and a reader still running after
\* timeOut // 2 polls ends as hang
C30_FinalStatus ==
    mn_pc \in {"finally", "end"} =>
        /\ mn_status \in {"halt", "crash", "stop", "finish", "hang", "error"}
        /\ ~mn_app => mn_status = "error"
        /\ mn_expired => mn_status = "hang"

====
